---- MODULE Spec2Model ----
(***************************************************************************)
(* vibe-relay: the board database, the Tool Surface (vibe_relay/mcp/tools), *)
(* the state machine (db/state_machine), the trigger processor             *)
(* (runner/triggers) and the agent launcher (runner/launcher, recorder).   *)
(*                                                                         *)
(* The database is one variable, db, a record of its tables.  Row ids are  *)
(* the row's index in its table (the code draws UUIDs); 0 stands for NULL. *)
(* A Tool Surface function is an operator from the database it reads to    *)
(* the database it commits and the error it returns.                       *)
(***************************************************************************)
EXTENDS Integers, Sequences, FiniteSets, Bags, TLC

\* Bounds of the model.
\* MaxEvents: in Spec, Tool Surface calls are taken while the event log
\* holds fewer events than this.
MaxEvents == 3
\* MaxAgents: max_parallel_agents ranges over 1..MaxAgents.
MaxAgents == 2
\* MaxSubtasks: the most children one create_subtasks call creates.
MaxSubtasks == 2
\* MaxCalls: the Tool Surface calls taken on the three-task boards of
\* SpecDeps and SpecSubtasks.
MaxCalls == 3
\* MaxNewSteps: the most steps one create_workflow_steps call is given.
MaxNewSteps == 2
\* MaxSteps: create_workflow_steps is called while the workflow_steps table
\* would hold at most this many rows.
MaxSteps == 5
\* MaxListeners: the websocket clients that connect.
MaxListeners == 2
\* MaxSessions: the session ids the agent subprocesses report.
MaxSessions == 2
\* MaxProcs: the agent subprocesses the Runner threads start around a shutdown.
MaxProcs == 2

NULL == 0

VARIABLES
    db,          \* the SQLite database: projects, workflow_steps, tasks,
                 \* task_dependencies, events, agent_runs
    max_agents,  \* config["max_parallel_agents"]
    tick_batch,  \* process_triggers: the events of the current tick still to
                 \* be handled (<<>>: the loop is in its sleep)
    scheduled,   \* bag of task ids: the _launch_in_thread tasks created in the
                 \* current tick, which start when the loop next awaits
    queued,      \* bag of task ids: the launch_agent threads that have not
                 \* reached start_run yet
    worktrees,   \* the tasks that have a worktree on disk
    cleanups,    \* the tasks with a _cleanup_worktree_in_thread task pending
    event_cap,   \* Tool Surface calls are taken while the event log is
                 \* shorter than this (fixed by Init)
    ws,          \* api/ws.py: the ConnectionManager, the position of
                 \* broadcast_events, and what each client has received
    captured_session_id,
                 \* run_agent's local of that name, for each agent_runs row
                 \* whose subprocess is running (NULL: none captured)
    tx,          \* the open transactions: the rows the MCP server's connection
                 \* has written and not committed, and the Tool Surface call a
                 \* second connection is in the middle of
    subprocesses \* runner/claude.py: the agent subprocesses, the registry
                 \* _active_processes and the position of terminate_all

vars ==
    <<db, max_agents, tick_batch, scheduled, queued, worktrees, cleanups, event_cap, ws,
      captured_session_id, tx, subprocesses>>

--------------------------------------------------------------------------
\* Generic helpers.

SetMax(S) == CHOOSE x \in S : \A y \in S : y <= x

SetMin(S) == CHOOSE x \in S : \A y \in S : x <= y

RECURSIVE SetToSeq(_)
\* The elements of a finite set of integers, ascending: the order in which
\* the model walks the rows of a SELECT without ORDER BY.
SetToSeq(S) ==
    IF S = {} THEN <<>>
    ELSE LET m == SetMin(S) IN <<m>> \o SetToSeq(S \ {m})

SelectIds(table, Test(_)) == {i \in DOMAIN table : Test(table[i])}

--------------------------------------------------------------------------
\* Tables (db/schema.py) and the rows the code inserts.

EmptyDb ==
    [projects          |-> <<>>,
     workflow_steps    |-> <<>>,
     tasks             |-> <<>>,
     task_dependencies |-> {},
     events            |-> <<>>,
     agent_runs        |-> <<>>,
     comments          |-> <<>>]

ProjectRow == [status |-> "active"]

StepRow(project_id, position, has_prompt) ==
    [project_id |-> project_id, position |-> position, system_prompt |-> has_prompt]

TaskRow(project_id, parent_task_id, step_id, task_type) ==
    [project_id     |-> project_id,
     parent_task_id |-> parent_task_id,
     step_id        |-> step_id,
     cancelled      |-> FALSE,
     type           |-> task_type,
     plan_approved  |-> FALSE,
     worktree_path  |-> FALSE,
     session_id     |-> NULL,
     output         |-> FALSE]

TaskTypes == {"task", "research", "milestone"}

TriggerTypes ==
    {"task_created", "task_moved", "task_cancelled",
     "plan_approved", "task_ready", "milestone_completed"}

\* A payload keeps the keys the consumers read: task_id and new_step_id.
Payload(task_id, new_step_id) == [task_id |-> task_id, new_step_id |-> new_step_id]

emit_event(conn, event_type, payload) ==
    [conn EXCEPT !.events =
        Append(@, [type             |-> event_type,
                   payload          |-> payload,
                   consumed         |-> 0,
                   trigger_consumed |-> 0])]

TaskIds(conn) == DOMAIN conn.tasks

StepIds(conn) == DOMAIN conn.workflow_steps

\* ws.position of a step, and of the step a task sits at (the JOIN).
StepPosition(conn, step_id) == conn.workflow_steps[step_id].position

TaskPosition(conn, task_id) == StepPosition(conn, conn.tasks[task_id].step_id)

\* SELECT MAX(position) FROM workflow_steps WHERE project_id = ?
MaxPosition(conn, project_id) ==
    SetMax({conn.workflow_steps[i].position :
              i \in SelectIds(conn.workflow_steps, LAMBDA s : s.project_id = project_id)})

\* ... WHERE project_id = ? ORDER BY position DESC LIMIT 1
TerminalStep(conn, project_id) ==
    CHOOSE i \in StepIds(conn) :
        /\ conn.workflow_steps[i].project_id = project_id
        /\ conn.workflow_steps[i].position = MaxPosition(conn, project_id)

\* ... WHERE project_id = ? AND position = ? (NULL when there is no row)
StepAt(conn, project_id, position) ==
    LET S == SelectIds(conn.workflow_steps,
                       LAMBDA s : s.project_id = project_id /\ s.position = position)
    IN IF S = {} THEN NULL ELSE CHOOSE i \in S : TRUE

Ok(conn) == [conn |-> conn, error |-> "none"]

Err(conn, kind) == [conn |-> conn, error |-> kind]

--------------------------------------------------------------------------
\* Dependency helpers (vibe_relay/mcp/tools.py).

Successors(conn, task_id) ==
    {e[2] : e \in {d \in conn.task_dependencies : d[1] = task_id}}

Predecessors(conn, task_id) ==
    {e[1] : e \in {d \in conn.task_dependencies : d[2] = task_id}}

RECURSIVE has_cycle_bfs(_, _, _, _)
has_cycle_bfs(conn, predecessor_id, queue, visited) ==
    IF queue = <<>> THEN FALSE
    ELSE LET current == Head(queue) IN
         IF current = predecessor_id THEN TRUE
         ELSE IF current \in visited
              THEN has_cycle_bfs(conn, predecessor_id, Tail(queue), visited)
              ELSE has_cycle_bfs(conn, predecessor_id,
                                 Tail(queue) \o SetToSeq(Successors(conn, current)),
                                 visited \cup {current})

\* has_cycle looking one edge ahead only.
has_cycle_one_edge(conn, predecessor_id, successor_id) ==
    predecessor_id = successor_id \/ predecessor_id \in Successors(conn, successor_id)

has_cycle(conn, predecessor_id, successor_id) ==
    has_cycle_bfs(conn, predecessor_id, <<successor_id>>, {})

\* is_blocked with cancelled predecessors left out.
is_blocked_skipping_cancelled(conn, task_id) ==
    \E pred_id \in Predecessors(conn, task_id) :
        /\ pred_id \in TaskIds(conn)
        /\ ~conn.tasks[pred_id].cancelled
        /\ TaskPosition(conn, pred_id) #
             MaxPosition(conn, conn.workflow_steps[conn.tasks[pred_id].step_id].project_id)

is_blocked(conn, task_id) ==
    \E pred_id \in Predecessors(conn, task_id) :
        /\ pred_id \in TaskIds(conn)
        /\ TaskPosition(conn, pred_id) #
             MaxPosition(conn, conn.workflow_steps[conn.tasks[pred_id].step_id].project_id)

--------------------------------------------------------------------------
\* State machine (db/state_machine.py).  Each validator gives "none" or the
\* InvalidTransitionError the code raises.

\* validate_step_transition without the test of the target step's project.
validate_step_transition_any_project(conn, task_id, target_step_id) ==
    IF task_id \notin TaskIds(conn) THEN "invalid_transition"
    ELSE IF conn.tasks[task_id].cancelled THEN "invalid_transition"
    ELSE IF target_step_id \notin StepIds(conn) THEN "invalid_transition"
    ELSE LET cur == TaskPosition(conn, task_id)
             tgt == StepPosition(conn, target_step_id)
         IN IF tgt = cur THEN "invalid_transition"
            ELSE IF tgt > cur /\ tgt # cur + 1 THEN "invalid_transition"
            ELSE "none"

validate_step_transition(conn, task_id, target_step_id) ==
    IF task_id \notin TaskIds(conn) THEN "invalid_transition"
    ELSE IF conn.tasks[task_id].cancelled THEN "invalid_transition"
    ELSE IF target_step_id \notin StepIds(conn) THEN "invalid_transition"
    ELSE IF conn.workflow_steps[target_step_id].project_id # conn.tasks[task_id].project_id
         THEN "invalid_transition"
    ELSE LET cur == TaskPosition(conn, task_id)
             tgt == StepPosition(conn, target_step_id)
         IN IF tgt = cur THEN "invalid_transition"
            ELSE IF tgt > cur /\ tgt # cur + 1 THEN "invalid_transition"
            ELSE "none"

validate_cancel(conn, task_id) ==
    IF task_id \notin TaskIds(conn) THEN "invalid_transition"
    ELSE IF conn.tasks[task_id].cancelled THEN "invalid_transition"
    ELSE "none"

\* _validate_uncancel without the test of the cancelled flag.
validate_uncancel_any(conn, task_id) ==
    IF task_id \notin TaskIds(conn) THEN "invalid_transition" ELSE "none"

validate_uncancel(conn, task_id) ==
    IF task_id \notin TaskIds(conn) THEN "invalid_transition"
    ELSE IF ~conn.tasks[task_id].cancelled THEN "invalid_transition"
    ELSE "none"

--------------------------------------------------------------------------
\* Tool Surface (vibe_relay/mcp/tools.py).

\* repo_path is None ("none"), a git repository ("git") or some other path
\* ("not_git").
RepoPaths == {"none", "git", "not_git"}

create_project(conn, repo_path) ==
    IF repo_path = "not_git" THEN Err(conn, "invalid_input")
    ELSE LET c1 == [conn EXCEPT !.projects = Append(@, ProjectRow)]
         IN Ok(emit_event(c1, "project_created", Payload(NULL, NULL)))

\* A step of the steps argument: whether it has a name and a system_prompt.
StepDefs == [name : BOOLEAN, system_prompt : BOOLEAN]

RECURSIVE insert_steps(_, _, _, _)
\* The loop of create_workflow_steps: one INSERT per step, position counted
\* from 0 within the call; a step without a name returns invalid_input with
\* the rows inserted so far still pending on the connection.  The commit
\* that ends the loop writes no event.
insert_steps(conn, project_id, steps, position) ==
    IF steps = <<>> THEN Ok(conn)
    ELSE IF ~Head(steps).name THEN Err(conn, "invalid_input")
    ELSE insert_steps(
            [conn EXCEPT !.workflow_steps =
                Append(@, StepRow(project_id, position, Head(steps).system_prompt))],
            project_id, Tail(steps), position + 1)

create_workflow_steps(conn, project_id, steps) ==
    IF project_id \notin DOMAIN conn.projects THEN Err(conn, "not_found")
    ELSE IF steps = <<>> THEN Err(conn, "invalid_input")
    ELSE insert_steps(conn, project_id, steps, 0)

create_task(conn, step_id, project_id, parent_task_id, task_type) ==
    IF step_id \notin StepIds(conn) THEN Err(conn, "not_found")
    ELSE IF conn.workflow_steps[step_id].project_id # project_id
         THEN Err(conn, "invalid_input")
    ELSE IF project_id \notin DOMAIN conn.projects THEN Err(conn, "not_found")
    ELSE IF parent_task_id # NULL /\ parent_task_id \notin TaskIds(conn)
         THEN Err(conn, "not_found")
    ELSE IF task_type \notin TaskTypes THEN Err(conn, "invalid_input")
    ELSE LET task_id == Len(conn.tasks) + 1
             c1 == [conn EXCEPT !.tasks =
                        Append(@, TaskRow(project_id, parent_task_id, step_id, task_type))]
         IN Ok(emit_event(c1, "task_created", Payload(task_id, NULL)))

move_task(conn, task_id, target_step_id) ==
    IF validate_step_transition(conn, task_id, target_step_id) # "none"
    THEN Err(conn, "invalid_transition")
    ELSE LET c1 == [conn EXCEPT !.tasks[task_id].step_id = target_step_id]
         IN Ok(emit_event(c1, "task_moved", Payload(task_id, target_step_id)))

\* cancel_task withdrawing the approval of the task it cancels.
cancel_task_unapproving(conn, task_id) ==
    IF validate_cancel(conn, task_id) # "none"
    THEN Err(conn, "invalid_transition")
    ELSE LET c1 == [conn EXCEPT !.tasks[task_id].cancelled = TRUE,
                                !.tasks[task_id].plan_approved = FALSE]
         IN Ok(emit_event(c1, "task_cancelled", Payload(task_id, NULL)))

cancel_task(conn, task_id) ==
    IF validate_cancel(conn, task_id) # "none"
    THEN Err(conn, "invalid_transition")
    ELSE LET c1 == [conn EXCEPT !.tasks[task_id].cancelled = TRUE]
         IN Ok(emit_event(c1, "task_cancelled", Payload(task_id, NULL)))

\* uncancel_task clearing the worktree_path of the task it restores.
uncancel_task_dropping_worktree(conn, task_id) ==
    IF validate_uncancel(conn, task_id) # "none"
    THEN Err(conn, "invalid_transition")
    ELSE LET c1 == [conn EXCEPT !.tasks[task_id].cancelled = FALSE,
                                !.tasks[task_id].worktree_path = FALSE]
         IN Ok(emit_event(c1, "task_uncancelled", Payload(task_id, NULL)))

uncancel_task(conn, task_id) ==
    IF validate_uncancel(conn, task_id) # "none"
    THEN Err(conn, "invalid_transition")
    ELSE LET c1 == [conn EXCEPT !.tasks[task_id].cancelled = FALSE]
         IN Ok(emit_event(c1, "task_uncancelled", Payload(task_id, NULL)))

add_dependency(conn, predecessor_id, successor_id) ==
    IF predecessor_id = successor_id THEN Err(conn, "invalid_input")
    ELSE IF predecessor_id \notin TaskIds(conn) \/ successor_id \notin TaskIds(conn)
         THEN Err(conn, "not_found")
    ELSE IF <<predecessor_id, successor_id>> \in conn.task_dependencies
         THEN Err(conn, "invalid_input")
    ELSE IF has_cycle(conn, predecessor_id, successor_id) THEN Err(conn, "invalid_input")
    ELSE LET c1 == [conn EXCEPT !.task_dependencies =
                        @ \cup {<<predecessor_id, successor_id>>}]
         IN Ok(emit_event(c1, "dependency_created", Payload(NULL, NULL)))

\* A dependency row is named by its (predecessor_id, successor_id) pair: the
\* table holds at most one row per pair, so the pair stands for the row's id.
remove_dependency(conn, dependency) ==
    IF dependency \notin conn.task_dependencies THEN Err(conn, "not_found")
    ELSE LET c1 == [conn EXCEPT !.task_dependencies = @ \ {dependency}]
         IN Ok(emit_event(c1, "dependency_removed", Payload(NULL, NULL)))

\* SELECT id FROM tasks WHERE parent_task_id = ? AND cancelled = 0
LiveChildren(conn, parent_task_id) ==
    SelectIds(conn.tasks, LAMBDA t : t.parent_task_id = parent_task_id /\ ~t.cancelled)

RECURSIVE approve_plan_ready_all(_, _)
\* The task_ready loop of approve_plan without the is_blocked test.
approve_plan_ready_all(conn, children) ==
    IF children = <<>> THEN conn
    ELSE approve_plan_ready_all(
            emit_event(conn, "task_ready", Payload(Head(children), NULL)),
            Tail(children))

RECURSIVE approve_plan_ready(_, _)
\* for child in children: if not is_blocked(conn, child): emit task_ready
approve_plan_ready(conn, children) ==
    IF children = <<>> THEN conn
    ELSE approve_plan_ready(
            IF ~is_blocked(conn, Head(children))
            THEN emit_event(conn, "task_ready", Payload(Head(children), NULL))
            ELSE conn,
            Tail(children))

\* approve_plan without the test of the plan_approved flag.
approve_plan_again(conn, task_id) ==
    IF task_id \notin TaskIds(conn) THEN Err(conn, "not_found")
    ELSE IF conn.tasks[task_id].type # "milestone" THEN Err(conn, "invalid_input")
    ELSE IF LiveChildren(conn, task_id) = {} THEN Err(conn, "invalid_input")
    ELSE LET c1 == [conn EXCEPT !.tasks[task_id].plan_approved = TRUE]
             c2 == emit_event(c1, "plan_approved", Payload(task_id, NULL))
         IN Ok(approve_plan_ready(c2, SetToSeq(LiveChildren(conn, task_id))))

approve_plan(conn, task_id) ==
    IF task_id \notin TaskIds(conn) THEN Err(conn, "not_found")
    ELSE IF conn.tasks[task_id].type # "milestone" THEN Err(conn, "invalid_input")
    ELSE IF conn.tasks[task_id].plan_approved THEN Err(conn, "invalid_input")
    ELSE IF LiveChildren(conn, task_id) = {} THEN Err(conn, "invalid_input")
    ELSE LET c1 == [conn EXCEPT !.tasks[task_id].plan_approved = TRUE]
             c2 == emit_event(c1, "plan_approved", Payload(task_id, NULL))
         IN Ok(approve_plan_ready(c2, SetToSeq(LiveChildren(conn, task_id))))

\* The parent test of _cascade_unblock: the successor's parent is absent,
\* not a milestone, or an approved milestone.
cascade_parent_approved(conn, succ_id) ==
    LET parent_id == conn.tasks[succ_id].parent_task_id IN
    ~(/\ parent_id # NULL
      /\ parent_id \in TaskIds(conn)
      /\ conn.tasks[parent_id].type = "milestone"
      /\ ~conn.tasks[parent_id].plan_approved)

RECURSIVE cascade_unblock_loop_any_parent(_, _)
\* _cascade_unblock without the parent-milestone test.
cascade_unblock_loop_any_parent(conn, successors) ==
    IF successors = <<>> THEN conn
    ELSE LET succ_id == Head(successors)
             emits == /\ ~is_blocked(conn, succ_id)
                      /\ succ_id \in TaskIds(conn)
                      /\ ~conn.tasks[succ_id].cancelled
         IN cascade_unblock_loop_any_parent(
                IF emits THEN emit_event(conn, "task_ready", Payload(succ_id, NULL))
                ELSE conn,
                Tail(successors))

RECURSIVE cascade_unblock_loop(_, _)
cascade_unblock_loop(conn, successors) ==
    IF successors = <<>> THEN conn
    ELSE LET succ_id == Head(successors)
             emits == /\ ~is_blocked(conn, succ_id)
                      /\ succ_id \in TaskIds(conn)
                      /\ ~conn.tasks[succ_id].cancelled
                      /\ cascade_parent_approved(conn, succ_id)
         IN cascade_unblock_loop(
                IF emits THEN emit_event(conn, "task_ready", Payload(succ_id, NULL))
                ELSE conn,
                Tail(successors))

cascade_unblock(conn, completed_task_id) ==
    cascade_unblock_loop(conn, SetToSeq(Successors(conn, completed_task_id)))

RECURSIVE check_sibling_completion_any_child(_, _)
\* _check_sibling_completion without the all_done test.
check_sibling_completion_any_child(conn, parent_task_id) ==
    IF parent_task_id \notin TaskIds(conn) THEN conn
    ELSE LET parent == conn.tasks[parent_task_id]
             children == LiveChildren(conn, parent_task_id)
             terminal_position == MaxPosition(conn, parent.project_id)
             current_position == TaskPosition(conn, parent_task_id)
             next_step == StepAt(conn, parent.project_id, current_position + 1)
         IN IF parent.type # "milestone" \/ parent.cancelled THEN conn
            ELSE IF children = {} THEN conn
            ELSE IF next_step = NULL THEN conn
            ELSE LET c1 == [conn EXCEPT !.tasks[parent_task_id].step_id = next_step]
                     c2 == emit_event(c1, "task_moved", Payload(parent_task_id, next_step))
                 IN IF StepPosition(conn, next_step) = terminal_position
                    THEN LET c3 == emit_event(c2, "milestone_completed",
                                              Payload(parent_task_id, NULL))
                         IN IF parent.parent_task_id # NULL
                            THEN check_sibling_completion_any_child(c3, parent.parent_task_id)
                            ELSE c3
                    ELSE c2

\* _check_sibling_completion without the recursion on the parent's parent.
check_sibling_completion_one_level(conn, parent_task_id) ==
    IF parent_task_id \notin TaskIds(conn) THEN conn
    ELSE LET parent == conn.tasks[parent_task_id]
             children == LiveChildren(conn, parent_task_id)
             terminal_position == MaxPosition(conn, parent.project_id)
             current_position == TaskPosition(conn, parent_task_id)
             next_step == StepAt(conn, parent.project_id, current_position + 1)
         IN IF parent.type # "milestone" \/ parent.cancelled THEN conn
            ELSE IF children = {} THEN conn
            ELSE IF \E c \in children : TaskPosition(conn, c) # terminal_position THEN conn
            ELSE IF next_step = NULL THEN conn
            ELSE LET c1 == [conn EXCEPT !.tasks[parent_task_id].step_id = next_step]
                     c2 == emit_event(c1, "task_moved", Payload(parent_task_id, next_step))
                 IN IF StepPosition(conn, next_step) = terminal_position
                    THEN emit_event(c2, "milestone_completed", Payload(parent_task_id, NULL))
                    ELSE c2

RECURSIVE check_sibling_completion(_, _)
check_sibling_completion(conn, parent_task_id) ==
    IF parent_task_id \notin TaskIds(conn) THEN conn
    ELSE LET parent == conn.tasks[parent_task_id]
             children == LiveChildren(conn, parent_task_id)
             terminal_position == MaxPosition(conn, parent.project_id)
             current_position == TaskPosition(conn, parent_task_id)
             next_step == StepAt(conn, parent.project_id, current_position + 1)
         IN IF parent.type # "milestone" \/ parent.cancelled THEN conn
            ELSE IF children = {} THEN conn
            ELSE IF \E c \in children : TaskPosition(conn, c) # terminal_position THEN conn
            ELSE IF next_step = NULL THEN conn
            ELSE LET c1 == [conn EXCEPT !.tasks[parent_task_id].step_id = next_step]
                     c2 == emit_event(c1, "task_moved", Payload(parent_task_id, next_step))
                 IN IF StepPosition(conn, next_step) = terminal_position
                    THEN LET c3 == emit_event(c2, "milestone_completed",
                                              Payload(parent_task_id, NULL))
                         IN IF parent.parent_task_id # NULL
                            THEN check_sibling_completion(c3, parent.parent_task_id)
                            ELSE c3
                    ELSE c2

\* complete_task without its test of cancelled.
complete_task_of_cancelled(conn, task_id) ==
    IF task_id \notin TaskIds(conn) THEN Err(conn, "not_found")
    ELSE LET task == conn.tasks[task_id]
             terminal == TerminalStep(conn, task.project_id)
         IN IF task.step_id = terminal THEN Err(conn, "invalid_transition")
            ELSE LET c1 == [conn EXCEPT !.tasks[task_id].step_id = terminal]
                     c2 == emit_event(c1, "task_moved", Payload(task_id, terminal))
                     c3 == cascade_unblock(c2, task_id)
                 IN Ok(IF task.parent_task_id # NULL
                       THEN check_sibling_completion(c3, task.parent_task_id)
                       ELSE c3)

complete_task(conn, task_id) ==
    IF task_id \notin TaskIds(conn) THEN Err(conn, "not_found")
    ELSE IF conn.tasks[task_id].cancelled THEN Err(conn, "invalid_transition")
    ELSE LET task == conn.tasks[task_id]
             terminal == TerminalStep(conn, task.project_id)
         IN IF task.step_id = terminal THEN Err(conn, "invalid_transition")
            ELSE LET c1 == [conn EXCEPT !.tasks[task_id].step_id = terminal]
                     c2 == emit_event(c1, "task_moved", Payload(task_id, terminal))
                     c3 == cascade_unblock(c2, task_id)
                 IN Ok(IF task.parent_task_id # NULL
                       THEN check_sibling_completion(c3, task.parent_task_id)
                       ELSE c3)

\* The step create_subtasks gives its children when default_step_id is None:
\* the step after the parent's, else the first agent step, else the parent's.
default_child_step(conn, parent_task_id) ==
    LET parent == conn.tasks[parent_task_id]
        next_step == StepAt(conn, parent.project_id, TaskPosition(conn, parent_task_id) + 1)
        agents == SelectIds(conn.workflow_steps,
                            LAMBDA s : s.project_id = parent.project_id /\ s.system_prompt)
    IN IF next_step # NULL THEN next_step
       ELSE IF agents # {}
            THEN CHOOSE i \in agents :
                    \A j \in agents : StepPosition(conn, i) <= StepPosition(conn, j)
            ELSE parent.step_id

RECURSIVE emit_task_created(_, _)
emit_task_created(conn, created) ==
    IF created = <<>> THEN conn
    ELSE emit_task_created(emit_event(conn, "task_created", Payload(Head(created), NULL)),
                           Tail(created))

RECURSIVE insert_children_any_project(_, _, _, _, _)
\* The loop without its test of the step's project.
insert_children_any_project(conn, parent_task_id, project_id, tasks, default_step_id) ==
    IF tasks = <<>> THEN Ok(conn)
    ELSE LET step_id == IF Head(tasks) = NULL THEN default_step_id ELSE Head(tasks) IN
         IF step_id \notin StepIds(conn) THEN Err(conn, "not_found")
         ELSE insert_children_any_project(
                  [conn EXCEPT !.tasks =
                      Append(@, TaskRow(project_id, parent_task_id, step_id, "task"))],
                  parent_task_id, project_id, Tail(tasks), default_step_id)

RECURSIVE insert_children(_, _, _, _, _)
\* The for loop over tasks: each child's step is validated and the child
\* inserted; a step that is unknown or of another project returns the
\* error with the children before it already inserted.
insert_children(conn, parent_task_id, project_id, tasks, default_step_id) ==
    IF tasks = <<>> THEN Ok(conn)
    ELSE LET step_id == IF Head(tasks) = NULL THEN default_step_id ELSE Head(tasks) IN
         IF step_id \notin StepIds(conn) THEN Err(conn, "not_found")
         ELSE IF conn.workflow_steps[step_id].project_id # project_id
              THEN Err(conn, "invalid_input")
         ELSE insert_children(
                  [conn EXCEPT !.tasks =
                      Append(@, TaskRow(project_id, parent_task_id, step_id, "task"))],
                  parent_task_id, project_id, Tail(tasks), default_step_id)

\* create_subtasks with the cascade edges of its first child only.
create_subtasks_cascade_first_child(conn, parent_task_id, tasks, default_step_id, dependencies, cascade_deps_from) ==
    IF parent_task_id \notin TaskIds(conn) THEN Err(conn, "not_found")
    ELSE LET project_id == conn.tasks[parent_task_id].project_id
             step_id == IF default_step_id = NULL
                        THEN default_child_step(conn, parent_task_id)
                        ELSE default_step_id
             n == Len(tasks)
             first == Len(conn.tasks)
             created == [i \in 1..n |-> first + i]
             inserted == insert_children(conn, parent_task_id, project_id, tasks, step_id)
             c1 == inserted.conn
             batch_edges == {<<created[d[1] + 1], created[d[2] + 1]>> :
                               d \in {e \in dependencies :
                                        /\ 0 <= e[1] /\ e[1] < n
                                        /\ 0 <= e[2] /\ e[2] < n}}
             cascade_edges == IF cascade_deps_from = NULL THEN {}
                              ELSE {<<created[i], succ_id>> :
                                      i \in {1} \cap (1..n), succ_id \in Successors(c1, cascade_deps_from)}
             c2 == [c1 EXCEPT !.task_dependencies = @ \cup batch_edges \cup cascade_edges]
             c3 == emit_event(c2, "subtasks_created", Payload(NULL, NULL))
         IN IF inserted.error # "none" THEN inserted
            ELSE Ok(emit_task_created(c3, created))

\* create_subtasks without the INSERTs of its dependencies argument.
create_subtasks_without_batch_edges(conn, parent_task_id, tasks, default_step_id, dependencies, cascade_deps_from) ==
    IF parent_task_id \notin TaskIds(conn) THEN Err(conn, "not_found")
    ELSE LET project_id == conn.tasks[parent_task_id].project_id
             step_id == IF default_step_id = NULL
                        THEN default_child_step(conn, parent_task_id)
                        ELSE default_step_id
             n == Len(tasks)
             first == Len(conn.tasks)
             created == [i \in 1..n |-> first + i]
             inserted == insert_children(conn, parent_task_id, project_id, tasks, step_id)
             c1 == inserted.conn
             batch_edges == {<<created[d[1] + 1], created[d[2] + 1]>> :
                               d \in {e \in dependencies :
                                        /\ 0 <= e[1] /\ e[1] < n
                                        /\ 0 <= e[2] /\ e[2] < n}}
             cascade_edges == IF cascade_deps_from = NULL THEN {}
                              ELSE {<<created[i], succ_id>> :
                                      i \in 1..n, succ_id \in Successors(c1, cascade_deps_from)}
             c2 == [c1 EXCEPT !.task_dependencies = @ \cup cascade_edges]
             c3 == emit_event(c2, "subtasks_created", Payload(NULL, NULL))
         IN IF inserted.error # "none" THEN inserted
            ELSE Ok(emit_task_created(c3, created))

\* tasks is the list of the children's step_id keys (NULL: the key is
\* absent and default_step_id is used), all of type "task"; default_step_id
\* NULL is None; dependencies is the set of <<from_index, to_index>> pairs,
\* 0-based.
create_subtasks(conn, parent_task_id, tasks, default_step_id, dependencies, cascade_deps_from) ==
    IF parent_task_id \notin TaskIds(conn) THEN Err(conn, "not_found")
    ELSE LET project_id == conn.tasks[parent_task_id].project_id
             step_id == IF default_step_id = NULL
                        THEN default_child_step(conn, parent_task_id)
                        ELSE default_step_id
             n == Len(tasks)
             first == Len(conn.tasks)
             created == [i \in 1..n |-> first + i]
             inserted == insert_children(conn, parent_task_id, project_id, tasks, step_id)
             c1 == inserted.conn
             batch_edges == {<<created[d[1] + 1], created[d[2] + 1]>> :
                               d \in {e \in dependencies :
                                        /\ 0 <= e[1] /\ e[1] < n
                                        /\ 0 <= e[2] /\ e[2] < n}}
             cascade_edges == IF cascade_deps_from = NULL THEN {}
                              ELSE {<<created[i], succ_id>> :
                                      i \in 1..n, succ_id \in Successors(c1, cascade_deps_from)}
             c2 == [c1 EXCEPT !.task_dependencies = @ \cup batch_edges \cup cascade_edges]
             c3 == emit_event(c2, "subtasks_created", Payload(NULL, NULL))
         IN IF inserted.error # "none" THEN inserted
            ELSE Ok(emit_task_created(c3, created))

\* author_role is given as whether it is a non-empty string.
add_comment(conn, task_id, author_role) ==
    IF ~author_role THEN Err(conn, "invalid_role")
    ELSE IF task_id \notin TaskIds(conn) THEN Err(conn, "not_found")
    ELSE LET c1 == [conn EXCEPT !.comments = Append(@, [task_id |-> task_id])]
         IN Ok(emit_event(c1, "comment_added", Payload(task_id, NULL)))

set_task_output(conn, task_id) ==
    IF task_id \notin TaskIds(conn) THEN Err(conn, "not_found")
    ELSE LET c1 == [conn EXCEPT !.tasks[task_id].output = TRUE]
         IN Ok(emit_event(c1, "task_updated", Payload(task_id, NULL)))

--------------------------------------------------------------------------
\* Event consumption (api/deps.py).

\* The ids of the rows of get_unconsumed_trigger_events, in created_at order.
get_unconsumed_trigger_events(conn) ==
    SetToSeq(SelectIds(conn.events,
                       LAMBDA e : e.trigger_consumed = 0 /\ e.type \in TriggerTypes))

\* mark_trigger_consumed setting the broadcaster's flag as well.
mark_trigger_consumed_both(conn, event_id) ==
    [conn EXCEPT !.events[event_id].trigger_consumed = 1,
                 !.events[event_id].consumed = 1]

mark_trigger_consumed(conn, event_id) ==
    [conn EXCEPT !.events[event_id].trigger_consumed = 1]

--------------------------------------------------------------------------
\* Broadcaster (api/ws.py, api/deps.py).

\* The ids of the rows of get_unconsumed_events, in created_at order.
get_unconsumed_events(conn) ==
    SetToSeq(SelectIds(conn.events, LAMBDA e : e.consumed = 0))

\* mark_event_consumed clearing the trigger processor's flag of the event.
mark_event_consumed_resetting(conn, event_id) ==
    [conn EXCEPT !.events[event_id].consumed = 1,
                 !.events[event_id].trigger_consumed = 0]

mark_event_consumed(conn, event_id) ==
    [conn EXCEPT !.events[event_id].consumed = 1]

\* The websocket clients.  A client is "new" until its handler has run
\* manager.connect, "open" while its socket is open, "closed" once the
\* client has gone and its handler has not yet seen WebSocketDisconnect,
\* and "gone" after the handler has run manager.disconnect.
Listeners == 1..MaxListeners

\* active_connections is empty, broadcast_events is in its sleep, and no
\* client has received anything.
WsIdle ==
    [active_connections |-> <<>>,
     state    |-> [l \in Listeners |-> "new"],
     events   |-> <<>>,     \* the events of this poll cycle still to be broadcast
     cursor   |-> 0,        \* how many items the for loop of broadcast has taken
     sending  |-> NULL,     \* the client whose send_json is awaited
     dead     |-> <<>>,
     received |-> [l \in Listeners |-> <<>>]]

\* list.remove(x): the list without the first x.
ListRemove(list, x) ==
    LET i == SetMin({j \in DOMAIN list : list[j] = x})
    IN SubSeq(list, 1, i - 1) \o SubSeq(list, i + 1, Len(list))

RECURSIVE remove_dead(_, _)
\* for ws in dead: self.active_connections.remove(ws); a client that is no
\* longer in the list raises ValueError out of broadcast.
remove_dead(active_connections, dead) ==
    IF dead = <<>> THEN [list |-> active_connections, raised |-> FALSE]
    ELSE IF \A j \in DOMAIN active_connections : active_connections[j] # Head(dead)
         THEN [list |-> active_connections, raised |-> TRUE]
    ELSE remove_dead(ListRemove(active_connections, Head(dead)), Tail(dead))

RECURSIVE broadcast_until_await(_, _)
\* broadcast_events from a point where no send is awaited up to the next
\* await: the next send_json of the current broadcast; or, at the end of
\* the for loop, the removal of the dead clients, mark_event_consumed and
\* the broadcast of the next event; or the sleep that ends the cycle, which
\* an exception reaches at once, leaving the event unmarked.
broadcast_until_await(conn, w) ==
    IF w.events = <<>> THEN [conn |-> conn, ws |-> w]
    ELSE IF w.cursor < Len(w.active_connections)
         THEN [conn |-> conn,
               ws   |-> [w EXCEPT !.sending = w.active_connections[w.cursor + 1],
                                  !.cursor = @ + 1]]
    ELSE LET removed == remove_dead(w.active_connections, w.dead) IN
         IF removed.raised
         THEN [conn |-> conn,
               ws   |-> [w EXCEPT !.active_connections = removed.list,
                                  !.events = <<>>, !.cursor = 0, !.dead = <<>>]]
         ELSE broadcast_until_await(
                  mark_event_consumed(conn, Head(w.events)),
                  [w EXCEPT !.active_connections = removed.list,
                            !.events = Tail(@), !.cursor = 0, !.dead = <<>>])

\* await ws.send_json(message) returns or raises: the client receives the
\* event if its socket is open, and joins dead otherwise.
send_json_done(w) ==
    IF w.state[w.sending] = "open"
    THEN [w EXCEPT !.received[w.sending] = Append(@, Head(w.events)), !.sending = NULL]
    ELSE [w EXCEPT !.dead = Append(@, w.sending), !.sending = NULL]

--------------------------------------------------------------------------
\* Trigger processor (runner/triggers.py).

ActiveRuns(conn) == SelectIds(conn.agent_runs, LAMBDA r : ~r.completed)

has_active_run(conn, task_id) ==
    Cardinality({r \in ActiveRuns(conn) : conn.agent_runs[r].task_id = task_id}) > 0

count_active_runs(conn) == Cardinality(ActiveRuns(conn))

step_has_agent(conn, step_id) ==
    step_id \in StepIds(conn) /\ conn.workflow_steps[step_id].system_prompt

is_terminal_step(conn, step_id) ==
    IF step_id \notin StepIds(conn) THEN FALSE
    ELSE IF conn.workflow_steps[step_id].system_prompt THEN FALSE
    ELSE StepPosition(conn, step_id) =
            MaxPosition(conn, conn.workflow_steps[step_id].project_id)

\* _is_parent_approved answering True for every task.
is_parent_approved_always(conn, task_id) == TRUE

is_parent_approved(conn, task_id) ==
    IF task_id \notin TaskIds(conn) \/ conn.tasks[task_id].parent_task_id = NULL THEN TRUE
    ELSE LET parent_id == conn.tasks[task_id].parent_task_id IN
         IF parent_id \notin TaskIds(conn) THEN TRUE
         ELSE IF conn.tasks[parent_id].type # "milestone" THEN TRUE
         ELSE conn.tasks[parent_id].plan_approved

should_dispatch(event, conn) ==
    IF event.type = "task_moved" /\ event.payload.new_step_id # NULL
    THEN step_has_agent(conn, event.payload.new_step_id)
    ELSE IF /\ event.type = "task_created"
            /\ event.payload.task_id # NULL
            /\ event.payload.task_id \in TaskIds(conn)
         THEN step_has_agent(conn, conn.tasks[event.payload.task_id].step_id)
         ELSE FALSE

should_cleanup(event, conn) ==
    IF event.type = "task_cancelled" THEN TRUE
    ELSE IF event.type = "task_moved" /\ event.payload.new_step_id # NULL
         THEN is_terminal_step(conn, event.payload.new_step_id)
         ELSE FALSE

\* _can_dispatch_task without its is_blocked test.
can_dispatch_task_ignoring_dependencies(conn, task_id) ==
    IF has_active_run(conn, task_id) THEN FALSE
    ELSE IF ~is_parent_approved(conn, task_id) THEN FALSE
    ELSE TRUE

can_dispatch_task(conn, task_id) ==
    IF has_active_run(conn, task_id) THEN FALSE
    ELSE IF ~is_parent_approved(conn, task_id) THEN FALSE
    ELSE IF is_blocked(conn, task_id) THEN FALSE
    ELSE TRUE

\* The first agent step after the task's position (NULL when there is none).
next_agent_step(conn, task_id) ==
    LET S == SelectIds(conn.workflow_steps,
                       LAMBDA s : /\ s.project_id = conn.tasks[task_id].project_id
                                  /\ s.position > TaskPosition(conn, task_id)
                                  /\ s.system_prompt)
    IN IF S = {} THEN NULL
       ELSE CHOOSE i \in S : \A j \in S : StepPosition(conn, i) <= StepPosition(conn, j)

\* _handle_task_ready without its test of cancelled.
handle_task_ready_of_cancelled(conn, event) ==
    LET task_id == event.payload.task_id IN
    IF task_id = NULL THEN conn
    ELSE IF task_id \notin TaskIds(conn) THEN conn
    ELSE IF next_agent_step(conn, task_id) = NULL THEN conn
    ELSE LET step_id == next_agent_step(conn, task_id)
             c1 == [conn EXCEPT !.tasks[task_id].step_id = step_id]
         IN emit_event(c1, "task_moved", Payload(task_id, step_id))

\* _handle_task_ready leaving the task where it is.
handle_task_ready_without_move(conn, event) == conn

handle_task_ready(conn, event) ==
    LET task_id == event.payload.task_id IN
    IF task_id = NULL THEN conn
    ELSE IF task_id \notin TaskIds(conn) THEN conn
    ELSE IF conn.tasks[task_id].cancelled THEN conn
    ELSE IF next_agent_step(conn, task_id) = NULL THEN conn
    ELSE LET step_id == next_agent_step(conn, task_id)
             c1 == [conn EXCEPT !.tasks[task_id].step_id = step_id]
         IN emit_event(c1, "task_moved", Payload(task_id, step_id))

\* The tasks whose row has a worktree_path: the cleanup branches' test.
wants_cleanup(conn, task_id) ==
    task_id # NULL /\ task_id \in TaskIds(conn) /\ conn.tasks[task_id].worktree_path

\* One pass of the body of "for event in events": the database afterwards,
\* the task a Runner is spawned for and the task a cleanup is spawned for.
Handled(conn, launch, cleanup) == [conn |-> conn, launch |-> launch, cleanup |-> cleanup]

\* The loop body with the capacity branch consuming the event as well.
process_event_consuming_at_capacity(conn, event_id, max) ==
    LET event == conn.events[event_id]
        task_id == event.payload.task_id
        consumed == mark_trigger_consumed(conn, event_id)
    IN IF event.type \in {"task_moved", "task_created"}
       THEN IF task_id = NULL THEN Handled(consumed, NULL, NULL)
            ELSE IF should_dispatch(event, conn)
                 THEN IF ~can_dispatch_task(conn, task_id) THEN Handled(consumed, NULL, NULL)
                      ELSE IF count_active_runs(conn) >= max THEN Handled(consumed, NULL, NULL)
                      ELSE Handled(consumed, task_id, NULL)
            ELSE IF should_cleanup(event, conn)
                 THEN Handled(consumed, NULL,
                              IF wants_cleanup(conn, task_id) THEN task_id ELSE NULL)
            ELSE Handled(consumed, NULL, NULL)
       ELSE IF event.type = "task_cancelled"
            THEN Handled(consumed, NULL,
                         IF wants_cleanup(conn, task_id) THEN task_id ELSE NULL)
       ELSE IF event.type = "task_ready"
            THEN Handled(mark_trigger_consumed(handle_task_ready(conn, event), event_id),
                         NULL, NULL)
       ELSE Handled(consumed, NULL, NULL)

process_event(conn, event_id, max) ==
    LET event == conn.events[event_id]
        task_id == event.payload.task_id
        consumed == mark_trigger_consumed(conn, event_id)
    IN IF event.type \in {"task_moved", "task_created"}
       THEN IF task_id = NULL THEN Handled(consumed, NULL, NULL)
            ELSE IF should_dispatch(event, conn)
                 THEN IF ~can_dispatch_task(conn, task_id) THEN Handled(consumed, NULL, NULL)
                      ELSE IF count_active_runs(conn) >= max THEN Handled(conn, NULL, NULL)
                      ELSE Handled(consumed, task_id, NULL)
            ELSE IF should_cleanup(event, conn)
                 THEN Handled(consumed, NULL,
                              IF wants_cleanup(conn, task_id) THEN task_id ELSE NULL)
            ELSE Handled(consumed, NULL, NULL)
       ELSE IF event.type = "task_cancelled"
            THEN Handled(consumed, NULL,
                         IF wants_cleanup(conn, task_id) THEN task_id ELSE NULL)
       ELSE IF event.type = "task_ready"
            THEN Handled(mark_trigger_consumed(handle_task_ready(conn, event), event_id),
                         NULL, NULL)
       ELSE Handled(consumed, NULL, NULL)

--------------------------------------------------------------------------
\* Agent launcher (runner/launcher.py) and run recorder (runner/recorder.py).

ExitCodes == {0, 1}

start_run(conn, task_id, step_id) ==
    [conn EXCEPT !.agent_runs =
        Append(@, [task_id |-> task_id, step_id |-> step_id,
                   completed |-> FALSE, exit_code |-> NULL, error |-> FALSE])]

complete_run(conn, run_id, exit_code) ==
    [conn EXCEPT !.agent_runs[run_id].completed = TRUE,
                 !.agent_runs[run_id].exit_code = exit_code]

fail_run_without_error(conn, run_id) ==
    [conn EXCEPT !.agent_runs[run_id].completed = TRUE,
                 !.agent_runs[run_id].exit_code = -1]

fail_run(conn, run_id) ==
    [conn EXCEPT !.agent_runs[run_id].completed = TRUE,
                 !.agent_runs[run_id].exit_code = -1,
                 !.agent_runs[run_id].error = TRUE]

SessionIds == 1..MaxSessions

\* launch_agent's on_session_id callback: its own committed UPDATE.
on_session_id(conn, task_id, sid) ==
    [conn EXCEPT !.tasks[task_id].session_id = sid]

run_agent_init_line_always(conn, captured, run_id, sid) ==
    [conn     |-> on_session_id(conn, conn.agent_runs[run_id].task_id, sid),
     captured |-> [captured EXCEPT ![run_id] = sid]]

\* run_agent's stdout loop at an init line that carries session_id sid: the
\* first one is captured and handed to on_session_id; with a session
\* resumed or already captured the line is skipped.
run_agent_init_line(conn, captured, run_id, sid) ==
    IF captured[run_id] = NULL
    THEN [conn     |-> on_session_id(conn, conn.agent_runs[run_id].task_id, sid),
          captured |-> [captured EXCEPT ![run_id] = sid]]
    ELSE [conn |-> conn, captured |-> captured]

\* launch_agent up to start_run: "launch_error" when the task is missing or
\* cancelled; otherwise the worktree is ensured and its path committed, and
\* then "launch_error" when the step has no system_prompt, else the run row
\* is inserted.
launch_agent_start(conn, disk, task_id) ==
    IF task_id \notin TaskIds(conn) \/ conn.tasks[task_id].cancelled
    THEN [conn |-> conn, disk |-> disk, error |-> "launch_error"]
    ELSE LET task == conn.tasks[task_id]
             c1 == IF ~task.worktree_path
                   THEN [conn EXCEPT !.tasks[task_id].worktree_path = TRUE]
                   ELSE conn
             d1 == IF ~task.worktree_path THEN disk \cup {task_id} ELSE disk
         IN IF ~conn.workflow_steps[task.step_id].system_prompt
            THEN [conn |-> c1, disk |-> d1, error |-> "launch_error"]
            ELSE [conn |-> start_run(c1, task_id, task.step_id), disk |-> d1,
                  error |-> "none"]

--------------------------------------------------------------------------
\* Open transactions (db/client.py, vibe_relay/mcp/server.py).

\* No connection has uncommitted rows and no call is in progress.
TxIdle == [pending |-> <<>>, call |-> <<>>]

--------------------------------------------------------------------------
\* Subprocess registry (runner/claude.py).

Procs == 1..MaxProcs

\* No Runner thread has reached Popen, _active_processes is empty and
\* terminate_all has not been called.  position is each thread's place in
\* run_agent: "new" before Popen, "spawned" between Popen and the add to
\* the registry, "registered" in the stdout loop and proc.wait, "done"
\* after the discard of the finally block.
NoSubprocesses ==
    [position         |-> [p \in Procs |-> "new"],
     alive            |-> [p \in Procs |-> FALSE],
     active_processes |-> {},
     procs            |-> {},      \* terminate_all's local list
     pc               |-> "idle"]  \* terminate_all: idle, stopping, clearing, returned

\* terminate_all: with _process_lock: procs = list(_active_processes)
terminate_all_snapshot(sp) ==
    [sp EXCEPT !.procs = sp.active_processes, !.pc = "stopping"]

\* terminate_all: proc.terminate() for each of procs, then proc.wait(5)
\* and proc.kill() for the stragglers.
terminate_all_stop(sp) ==
    [sp EXCEPT !.alive = [p \in Procs |-> IF p \in sp.procs THEN FALSE ELSE sp.alive[p]],
               !.pc = "clearing"]

\* terminate_all: with _process_lock: _active_processes.clear(); return
terminate_all_clear(sp) ==
    [sp EXCEPT !.active_processes = {}, !.procs = {}, !.pc = "returned"]

--------------------------------------------------------------------------
\* Actions.  A Tool Surface call that returns an error commits nothing and
\* is no step; a call is taken only while the event log is below event_cap.

Commit(r) ==
    /\ Len(db.events) < event_cap
    /\ r.error = "none"
    /\ db' = r.conn
    /\ UNCHANGED <<max_agents, tick_batch, scheduled, queued, worktrees, cleanups, event_cap, ws, captured_session_id, tx, subprocesses>>

CreateProject == \E repo_path \in RepoPaths : Commit(create_project(db, repo_path))

\* Step lists of up to MaxNewSteps steps, while the table stays within
\* MaxSteps rows.
CreateWorkflowSteps ==
    \E project_id \in DOMAIN db.projects, n \in 1..MaxNewSteps :
        \E steps \in [1..n -> StepDefs] :
            /\ Len(db.workflow_steps) + n <= MaxSteps
            /\ Commit(create_workflow_steps(db, project_id, steps))

AddComment ==
    \E task_id \in TaskIds(db), author_role \in BOOLEAN :
        Commit(add_comment(db, task_id, author_role))

SetTaskOutput == \E task_id \in TaskIds(db) : Commit(set_task_output(db, task_id))

CreateTask ==
    \E step_id \in StepIds(db), parent_task_id \in {NULL} \cup TaskIds(db),
       task_type \in {"task", "milestone"} :
        Commit(create_task(db, step_id, db.workflow_steps[step_id].project_id,
                           parent_task_id, task_type))

CreateSubtasks ==
    \E parent_task_id \in TaskIds(db), n \in 1..MaxSubtasks,
       cascade_deps_from \in {NULL} \cup TaskIds(db) :
        \E dependencies \in SUBSET {d \in (0..(n-1)) \X (0..(n-1)) : d[1] # d[2]} :
            Commit(create_subtasks(db, parent_task_id, [i \in 1..n |-> NULL], NULL,
                                   dependencies, cascade_deps_from))

\* create_subtasks with step_id keys in its tasks and a default_step_id.
CreateSubtasksAt ==
    \E parent_task_id \in TaskIds(db), n \in 1..MaxSubtasks,
       default_step_id \in {NULL} \cup StepIds(db) :
        \E tasks \in [1..n -> {NULL} \cup StepIds(db)] :
            Commit(create_subtasks(db, parent_task_id, tasks, default_step_id, {}, NULL))

MoveTask ==
    \E task_id \in TaskIds(db), target_step_id \in StepIds(db) :
        Commit(move_task(db, task_id, target_step_id))

CancelTask == \E task_id \in TaskIds(db) : Commit(cancel_task(db, task_id))

UncancelTask == \E task_id \in TaskIds(db) : Commit(uncancel_task(db, task_id))

AddDependency ==
    \E predecessor_id \in TaskIds(db), successor_id \in TaskIds(db) :
        Commit(add_dependency(db, predecessor_id, successor_id))

RemoveDependency ==
    \E dependency \in db.task_dependencies : Commit(remove_dependency(db, dependency))

ApprovePlan == \E task_id \in TaskIds(db) : Commit(approve_plan(db, task_id))

CompleteTask == \E task_id \in TaskIds(db) : Commit(complete_task(db, task_id))

\* process_triggers: the top of the while loop reads the unconsumed events.
TickStart ==
    /\ tick_batch = <<>>
    /\ get_unconsumed_trigger_events(db) # <<>>
    /\ tick_batch' = get_unconsumed_trigger_events(db)
    /\ UNCHANGED <<db, max_agents, scheduled, queued, worktrees, cleanups, event_cap, ws, captured_session_id, tx, subprocesses>>

\* One event of the tick.  The tasks created by asyncio.create_task start
\* when the loop reaches its sleep, after the last event of the tick.
TickProcess ==
    /\ tick_batch # <<>>
    /\ LET r == process_event(db, Head(tick_batch), max_agents)
           launched == IF r.launch = NULL THEN scheduled
                       ELSE scheduled (+) SetToBag({r.launch})
       IN /\ db' = r.conn
          /\ tick_batch' = Tail(tick_batch)
          /\ IF Tail(tick_batch) = <<>>
             THEN scheduled' = EmptyBag /\ queued' = queued (+) launched
             ELSE scheduled' = launched /\ queued' = queued
          /\ cleanups' = IF r.cleanup = NULL THEN cleanups ELSE cleanups \cup {r.cleanup}
    /\ UNCHANGED <<max_agents, worktrees, event_cap, ws, captured_session_id, tx, subprocesses>>

\* launch_agent in its thread, up to and including start_run and the
\* start of run_agent, whose captured_session_id starts as the session_id
\* of the task row loaded at the top of launch_agent.
RunnerStart ==
    \E task_id \in BagToSet(queued) :
        LET r == launch_agent_start(db, worktrees, task_id) IN
        /\ queued' = queued (-) SetToBag({task_id})
        /\ db' = r.conn
        /\ worktrees' = r.disk
        /\ captured_session_id' =
               IF r.error = "none"
               THEN [run_id \in DOMAIN captured_session_id \cup {Len(r.conn.agent_runs)} |->
                        IF run_id \in DOMAIN captured_session_id
                        THEN captured_session_id[run_id]
                        ELSE db.tasks[task_id].session_id]
               ELSE captured_session_id
        /\ UNCHANGED <<max_agents, tick_batch, scheduled, cleanups, event_cap, ws, tx, subprocesses>>

\* run_agent reads a line {type: system, subtype: init, session_id} from the
\* subprocess's stdout.
RunnerSession ==
    \E run_id \in ActiveRuns(db), sid \in SessionIds :
        LET r == run_agent_init_line(db, captured_session_id, run_id, sid) IN
        /\ db' = r.conn
        /\ captured_session_id' = r.captured
        /\ UNCHANGED <<max_agents, tick_batch, scheduled, queued, worktrees, cleanups, event_cap, ws, tx, subprocesses>>

\* run_agent returns (complete_run) or raises (fail_run).
RunnerFinish ==
    \E run_id \in ActiveRuns(db) :
        /\ \/ \E exit_code \in ExitCodes : db' = complete_run(db, run_id, exit_code)
           \/ db' = fail_run(db, run_id)
        /\ captured_session_id' =
               [r \in DOMAIN captured_session_id \ {run_id} |-> captured_session_id[r]]
        /\ UNCHANGED <<max_agents, tick_batch, scheduled, queued, worktrees, cleanups, event_cap, ws, tx, subprocesses>>

\* What the steps of runner/claude.py leave alone.
OnlySubprocesses ==
    UNCHANGED <<db, max_agents, tick_batch, scheduled, queued, worktrees, cleanups, event_cap, ws,
                captured_session_id, tx>>

\* run_agent: subprocess.Popen returns.
Popen ==
    \E p \in Procs :
        /\ subprocesses.position[p] = "new"
        /\ subprocesses' = [subprocesses EXCEPT !.position[p] = "spawned", !.alive[p] = TRUE]
        /\ OnlySubprocesses

\* run_agent: with _process_lock: _active_processes.add(proc)
RegisterProcess ==
    \E p \in Procs :
        /\ subprocesses.position[p] = "spawned"
        /\ subprocesses' = [subprocesses EXCEPT !.position[p] = "registered",
                                                !.active_processes = @ \cup {p}]
        /\ OnlySubprocesses

\* The agent subprocess ends by itself.
ProcessExit ==
    \E p \in Procs :
        /\ subprocesses.alive[p]
        /\ subprocesses' = [subprocesses EXCEPT !.alive[p] = FALSE]
        /\ OnlySubprocesses

\* run_agent: the stdout loop and proc.wait() end with the subprocess, and
\* the finally block discards it from the registry.
DiscardProcess ==
    \E p \in Procs :
        /\ subprocesses.position[p] = "registered"
        /\ ~subprocesses.alive[p]
        /\ subprocesses' = [subprocesses EXCEPT !.position[p] = "done",
                                                !.active_processes = @ \ {p}]
        /\ OnlySubprocesses

TerminateAllSnapshot ==
    /\ subprocesses.pc = "idle"
    /\ subprocesses' = terminate_all_snapshot(subprocesses)
    /\ OnlySubprocesses

TerminateAllStop ==
    /\ subprocesses.pc = "stopping"
    /\ subprocesses' = terminate_all_stop(subprocesses)
    /\ OnlySubprocesses

TerminateAllClear ==
    /\ subprocesses.pc = "clearing"
    /\ subprocesses' = terminate_all_clear(subprocesses)
    /\ OnlySubprocesses

\* remove_worktree in its thread; a missing worktree is a logged WorktreeError.
CleanupRun ==
    \E task_id \in cleanups :
        /\ tick_batch = <<>>
        /\ cleanups' = cleanups \ {task_id}
        /\ worktrees' = worktrees \ {task_id}
        /\ UNCHANGED <<db, max_agents, tick_batch, scheduled, queued, event_cap, ws, captured_session_id, tx, subprocesses>>

\* broadcast_events wakes from its sleep and reads the unconsumed events.
BroadcastPoll ==
    /\ ws.events = <<>> /\ ws.sending = NULL
    /\ get_unconsumed_events(db) # <<>>
    /\ LET r == broadcast_until_await(db, [ws EXCEPT !.events = get_unconsumed_events(db)])
       IN db' = r.conn /\ ws' = r.ws
    /\ UNCHANGED <<max_agents, tick_batch, scheduled, queued, worktrees, cleanups, event_cap, captured_session_id, tx, subprocesses>>

\* The awaited send_json ends and broadcast_events runs on to its next await.
BroadcastResume ==
    /\ ws.sending # NULL
    /\ LET r == broadcast_until_await(db, send_json_done(ws))
       IN db' = r.conn /\ ws' = r.ws
    /\ UNCHANGED <<max_agents, tick_batch, scheduled, queued, worktrees, cleanups, event_cap, captured_session_id, tx, subprocesses>>

\* websocket_endpoint: manager.connect.
Connect ==
    \E l \in Listeners :
        /\ ws.state[l] = "new"
        /\ ws' = [ws EXCEPT !.state[l] = "open",
                            !.active_connections = Append(@, l)]
        /\ UNCHANGED <<db, max_agents, tick_batch, scheduled, queued, worktrees, cleanups, event_cap, captured_session_id, tx, subprocesses>>

\* The client closes its socket.
ClientClose ==
    \E l \in Listeners :
        /\ ws.state[l] = "open"
        /\ ws' = [ws EXCEPT !.state[l] = "closed"]
        /\ UNCHANGED <<db, max_agents, tick_batch, scheduled, queued, worktrees, cleanups, event_cap, captured_session_id, tx, subprocesses>>

\* websocket_endpoint: receive_text raises WebSocketDisconnect and the
\* handler runs manager.disconnect (a ValueError there ends the handler).
Disconnect ==
    \E l \in Listeners :
        /\ ws.state[l] = "closed"
        /\ ws' = [ws EXCEPT !.state[l] = "gone",
                            !.active_connections =
                                IF \E j \in DOMAIN @ : @[j] = l THEN ListRemove(@, l) ELSE @]
        /\ UNCHANGED <<db, max_agents, tick_batch, scheduled, queued, worktrees, cleanups, event_cap, captured_session_id, tx, subprocesses>>

--------------------------------------------------------------------------
\* A board with one project and the given workflow: step i has position
\* i - 1 and an agent when workflow[i] is TRUE.  SeedDb has the workflow
\* Plan (agent), Implement (agent), Done.

BoardWith(workflow) ==
    [EmptyDb EXCEPT
        !.projects = <<ProjectRow>>,
        !.workflow_steps = [i \in DOMAIN workflow |-> StepRow(1, i - 1, workflow[i])]]

SeedWorkflow == <<TRUE, TRUE, FALSE>>

SeedDb == BoardWith(SeedWorkflow)

Idle ==
    /\ tick_batch = <<>>
    /\ scheduled = EmptyBag
    /\ queued = EmptyBag
    /\ worktrees = {}
    /\ cleanups = {}
    /\ ws = WsIdle
    /\ captured_session_id = [run_id \in ActiveRuns(db) |-> NULL]
    /\ tx = TxIdle
    /\ subprocesses = NoSubprocesses

Init ==
    /\ db = SeedDb
    /\ max_agents \in 1..MaxAgents
    /\ event_cap = MaxEvents
    /\ Idle

Next ==
    \/ CreateTask
    \/ MoveTask
    \/ AddDependency
    \/ ApprovePlan
    \/ CancelTask
    \/ CompleteTask
    \/ TickStart
    \/ TickProcess
    \/ RunnerStart
    \/ RunnerFinish
    \/ CleanupRun

Spec == Init /\ [][Next]_vars

--------------------------------------------------------------------------
\* The dependency graph under the Tool Surface alone.  The board holds three
\* tasks made by create_task at the first step: task 1 is a task or a
\* milestone, tasks 2 and 3 are top-level or children of task 1.  The
\* trigger loop is not running; MaxCalls further calls are taken.

SeedTasks(task_type, parent2, parent3) ==
    LET c1 == create_task(SeedDb, 1, 1, NULL, task_type).conn
        c2 == create_task(c1, 1, 1, parent2, "task").conn
    IN create_task(c2, 1, 1, parent3, "task").conn

DepSeeds ==
    {SeedTasks(task_type, parent2, parent3) :
        task_type \in {"task", "milestone"}, parent2 \in {NULL, 1}, parent3 \in {NULL, 1}}

InitDeps ==
    /\ db \in DepSeeds
    /\ max_agents = 1
    /\ event_cap = Len(db.events) + MaxCalls
    /\ Idle

NextDeps ==
    \/ AddDependency
    \/ RemoveDependency
    \/ MoveTask
    \/ CompleteTask
    \/ CancelTask
    \/ UncancelTask
    \/ ApprovePlan

SpecDeps == InitDeps /\ [][NextDeps]_vars

NextSubtasks ==
    \/ CreateSubtasks
    \/ AddDependency
    \/ RemoveDependency

SpecSubtasks == InitDeps /\ [][NextSubtasks]_vars

--------------------------------------------------------------------------
\* Two scenarios on the workflow Plan (agent), Implement (agent),
\* Review (agent), Done, with the trigger loop and the Runners running.
\* The loop polls for ever, every spawned Runner thread gets to run and
\* every agent process ends: weak fairness of the engine's steps.

ScenarioWorkflow == <<TRUE, TRUE, TRUE, FALSE>>

EngineFairness ==
    /\ WF_vars(TickStart)
    /\ WF_vars(TickProcess)
    /\ WF_vars(RunnerStart)
    /\ WF_vars(RunnerFinish)
    /\ WF_vars(CleanupRun)

\* Capacity: three tasks are created at Plan before the first tick, with
\* max_parallel_agents = 1.
CapacityBoard ==
    LET c1 == create_task(BoardWith(ScenarioWorkflow), 1, 1, NULL, "task").conn
        c2 == create_task(c1, 1, 1, NULL, "task").conn
    IN create_task(c2, 1, 1, NULL, "task").conn

InitCapacity ==
    /\ db = CapacityBoard
    /\ max_agents = 1
    /\ event_cap = Len(db.events)
    /\ Idle

NextCapacity ==
    \/ TickStart
    \/ TickProcess
    \/ RunnerStart
    \/ RunnerFinish

SpecCapacity == InitCapacity /\ [][NextCapacity]_vars /\ EngineFairness

\* Dependency unblock: tasks A (1) and B (2) at Plan and the edge A -> B,
\* stored before the first tick; complete_task(A) is called at any moment.
UnblockBoard ==
    LET c1 == create_task(BoardWith(ScenarioWorkflow), 1, 1, NULL, "task").conn
        c2 == create_task(c1, 1, 1, NULL, "task").conn
    IN add_dependency(c2, 1, 2).conn

InitUnblock ==
    /\ db = UnblockBoard
    /\ max_agents \in 1..MaxAgents
    /\ event_cap = Len(db.events) + 1
    /\ Idle

CompleteA == Commit(complete_task(db, 1))

NextUnblock ==
    \/ CompleteA
    \/ TickStart
    \/ TickProcess
    \/ RunnerStart
    \/ RunnerFinish
    \/ CleanupRun

SpecUnblock == InitUnblock /\ [][NextUnblock]_vars /\ EngineFairness

\* Milestone gating: milestone M (1) is created at Plan and its child C (2)
\* at Implement before the first tick; approve_plan(M) is called at any
\* moment.
MilestoneBoard ==
    LET c1 == create_task(BoardWith(ScenarioWorkflow), 1, 1, NULL, "milestone").conn
    IN create_task(c1, 2, 1, 1, "task").conn

InitMilestone ==
    /\ db = MilestoneBoard
    /\ max_agents \in 1..MaxAgents
    /\ event_cap = Len(db.events) + 1
    /\ Idle

ApproveM == Commit(approve_plan(db, 1))

NextMilestone ==
    \/ ApproveM
    \/ TickStart
    \/ TickProcess
    \/ RunnerStart
    \/ RunnerFinish

SpecMilestone == InitMilestone /\ [][NextMilestone]_vars /\ EngineFairness

\* The whole program on the milestone board, before and after the approval
\* of its plan: every Tool Surface operation, with the trigger loop and the
\* Runners running; the Tool Surface is called while the event log has not
\* grown since the start.
\* The milestone board as created, with its plan approved, and with the
\* approved milestone cancelled and made a predecessor of its child.
ApprovedBoard == approve_plan(MilestoneBoard, 1).conn

CancelledBoard == add_dependency(cancel_task(ApprovedBoard, 1).conn, 1, 2).conn

BoardSeeds == {MilestoneBoard, ApprovedBoard, CancelledBoard}

InitBoard ==
    /\ db \in BoardSeeds
    /\ max_agents = 1
    /\ event_cap = Len(db.events) + 1
    /\ Idle

NextBoard ==
    \/ CreateTask
    \/ CreateSubtasks
    \/ MoveTask
    \/ CancelTask
    \/ UncancelTask
    \/ AddDependency
    \/ RemoveDependency
    \/ ApprovePlan
    \/ CompleteTask
    \/ TickStart
    \/ TickProcess
    \/ RunnerStart
    \/ RunnerFinish
    \/ CleanupRun

SpecBoard == InitBoard /\ [][NextBoard]_vars

\* Two projects, each with its own workflow (create_project): project 1 has
\* four steps (ids 1..4), project 2 has two (ids 5, 6).  Two tasks sit in
\* project 1 and one in project 2.
TwoProjectBoard ==
    LET c0 == [EmptyDb EXCEPT
                 !.projects = <<ProjectRow, ProjectRow>>,
                 !.workflow_steps =
                     [i \in 1..4 |-> StepRow(1, i - 1, ScenarioWorkflow[i])]
                     \o <<StepRow(2, 0, TRUE), StepRow(2, 1, FALSE)>>]
        c1 == create_task(c0, 1, 1, NULL, "task").conn
        c2 == create_task(c1, 2, 1, NULL, "task").conn
    IN create_task(c2, 5, 2, NULL, "task").conn

InitMove ==
    /\ db = TwoProjectBoard
    /\ max_agents = 1
    /\ event_cap = Len(db.events) + MaxCalls
    /\ Idle

NextMove ==
    \/ MoveTask
    \/ CancelTask
    \/ UncancelTask
    \/ CompleteTask

SpecMove == InitMove /\ [][NextMove]_vars

\* The 7-step workflow of the auto-advance tests (Plan, Design, Backlog,
\* Implement, Test, Review, Done; Backlog and Done have no agent) with a
\* milestone and its two research children at Plan.
SdlcWorkflow == <<TRUE, TRUE, FALSE, TRUE, TRUE, TRUE, FALSE>>

SdlcBoard ==
    LET c1 == create_task(BoardWith(SdlcWorkflow), 1, 1, NULL, "milestone").conn
        c2 == create_task(c1, 1, 1, 1, "research").conn
    IN create_task(c2, 1, 1, 1, "research").conn

InitSdlc ==
    /\ db = SdlcBoard
    /\ max_agents = 1
    /\ event_cap = Len(db.events) + MaxCalls
    /\ Idle

NextSdlc ==
    \/ CompleteTask
    \/ CancelTask
    \/ UncancelTask
    \/ MoveTask

SpecSdlc == InitSdlc /\ [][NextSdlc]_vars

\* A chain of nested milestones on the three-step workflow: milestone 1,
\* its child milestone 2, and task 3, the child of milestone 2, all at the
\* first step.
NestedBoard ==
    LET c1 == create_task(SeedDb, 1, 1, NULL, "milestone").conn
        c2 == create_task(c1, 1, 1, 1, "milestone").conn
    IN create_task(c2, 1, 1, 2, "task").conn

InitNested ==
    /\ db = NestedBoard
    /\ max_agents = 1
    /\ event_cap = Len(db.events) + MaxCalls
    /\ Idle

NextNested ==
    \/ MoveTask
    \/ CompleteTask
    \/ CancelTask
    \/ UncancelTask

SpecNested == InitNested /\ [][NextNested]_vars

\* The Tool Surface alone, every state-mutating operation, from the empty
\* database, from a project without steps, from the three-task boards and
\* from the board with a cancelled task and a dependency.
ProjectBoard == create_project(EmptyDb, "none").conn

ToolSeeds == {EmptyDb, ProjectBoard, CancelledBoard} \cup DepSeeds

InitTools ==
    /\ db \in ToolSeeds
    /\ max_agents = 1
    /\ event_cap = Len(db.events) + 1
    /\ Idle

NextTools ==
    \/ CreateProject
    \/ CreateWorkflowSteps
    \/ CreateTask
    \/ CreateSubtasks
    \/ MoveTask
    \/ CancelTask
    \/ UncancelTask
    \/ AddComment
    \/ AddDependency
    \/ RemoveDependency
    \/ ApprovePlan
    \/ CompleteTask
    \/ SetTaskOutput

SpecTools == InitTools /\ [][NextTools]_vars

\* The event log with its two consumers: three tasks have been created, a
\* Tool Surface call writes one more event, the trigger processor and the
\* broadcaster consume them, and websocket clients come and go.
InitEvents ==
    /\ db = SeedTasks("task", NULL, NULL)
    /\ max_agents = 1
    /\ event_cap = Len(db.events) + 1
    /\ Idle

NextEvents ==
    \/ MoveTask
    \/ CancelTask
    \/ TickStart
    \/ TickProcess
    \/ BroadcastPoll
    \/ BroadcastResume
    \/ Connect
    \/ ClientClose
    \/ Disconnect

SpecEvents == InitEvents /\ [][NextEvents]_vars

\* One agent at a time.  The first task's task_created event has been
\* processed and its agent has reached start_run; a second task has been
\* created since.  Tool Surface calls, the trigger processor with its
\* Runner threads, and the broadcaster run from there.
OrderBoard ==
    LET c1 == create_task(SeedDb, 1, 1, NULL, "task").conn
        c2 == process_event(c1, Head(get_unconsumed_trigger_events(c1)), 1).conn
        c3 == launch_agent_start(c2, {}, 1).conn
    IN create_task(c3, 1, 1, NULL, "task").conn

InitOrder ==
    /\ db = OrderBoard
    /\ max_agents = 1
    /\ event_cap = Len(db.events) + 1
    /\ tick_batch = <<>>
    /\ scheduled = EmptyBag
    /\ queued = EmptyBag
    /\ worktrees = {1}
    /\ cleanups = {}
    /\ ws = WsIdle
    /\ captured_session_id = [run_id \in ActiveRuns(db) |-> NULL]
    /\ tx = TxIdle
    /\ subprocesses = NoSubprocesses

NextOrder ==
    \/ MoveTask
    \/ CancelTask
    \/ TickStart
    \/ TickProcess
    \/ RunnerStart
    \/ RunnerFinish
    \/ BroadcastPoll
    \/ BroadcastResume
    \/ Connect

SpecOrder == InitOrder /\ [][NextOrder]_vars

\* One task created at the first agent step; a move takes it on to the
\* next agent step, where its session is resumed.  The trigger loop, the
\* Runner threads and the agent subprocesses run, and every agent process
\* ends.
RunBoard == create_task(SeedDb, 1, 1, NULL, "task").conn

InitRun ==
    /\ db = RunBoard
    /\ max_agents \in 1..MaxAgents
    /\ event_cap = Len(db.events) + 1
    /\ Idle

NextRun ==
    \/ MoveTask
    \/ TickStart
    \/ TickProcess
    \/ RunnerStart
    \/ RunnerSession
    \/ RunnerFinish

SpecRun == InitRun /\ [][NextRun]_vars /\ EngineFairness

\* Two projects (four steps, ids 1..4, and two steps, ids 5 and 6).  In
\* project 1 a milestone, its child, and a task that depends on the child;
\* in project 2 one task.  Every operation that sets a step_id runs: the
\* Tool Surface calls and the trigger loop's task_ready handling.
ProjectsBoard ==
    LET c0 == [EmptyDb EXCEPT
                 !.projects = <<ProjectRow, ProjectRow>>,
                 !.workflow_steps =
                     [i \in 1..4 |-> StepRow(1, i - 1, ScenarioWorkflow[i])]
                     \o <<StepRow(2, 0, TRUE), StepRow(2, 1, FALSE)>>]
        c1 == create_task(c0, 1, 1, NULL, "milestone").conn
        c2 == create_task(c1, 1, 1, 1, "task").conn
        c3 == create_task(c2, 1, 1, NULL, "task").conn
        c4 == create_task(c3, 5, 2, NULL, "task").conn
    IN add_dependency(c4, 2, 3).conn

\* The board as created, or after complete_task on the child.
InitProjects ==
    /\ db \in {ProjectsBoard, complete_task(ProjectsBoard, 2).conn}
    /\ max_agents = 1
    /\ event_cap = Len(db.events) + 1
    /\ Idle

NextProjects ==
    \/ CreateTask
    \/ CreateSubtasksAt
    \/ MoveTask
    \/ CompleteTask
    \/ CancelTask
    \/ TickStart
    \/ TickProcess

SpecProjects == InitProjects /\ [][NextProjects]_vars

\* One task at the first agent step; create_subtasks puts children under
\* it, with dependencies among them, while the trigger loop and the Runner
\* threads run.
InitBatch ==
    /\ db = RunBoard
    /\ max_agents \in 1..MaxAgents
    /\ event_cap = Len(db.events) + 2
    /\ Idle

NextBatch ==
    \/ CreateSubtasks
    \/ CompleteTask
    \/ TickStart
    \/ TickProcess
    \/ RunnerStart
    \/ RunnerFinish

SpecBatch == InitBatch /\ [][NextBatch]_vars

\* Task A (1) with its dependent task B (2), both at Plan of the four-step
\* workflow.  create_subtasks puts children under a task, with or without
\* cascade_deps_from, and tasks are completed.
InitCascade ==
    /\ db = UnblockBoard
    /\ max_agents = 1
    /\ event_cap = Len(db.events) + MaxSubtasks + 3
    /\ Idle

NextCascade ==
    \/ CreateSubtasks
    \/ CompleteTask

SpecCascade == InitCascade /\ [][NextCascade]_vars

\* The MCP server's connection (vibe_relay/mcp/server.py): one connection
\* opened at startup serves every tool call, so a call reads the rows its
\* earlier calls inserted and did not commit.
ConnView == IF tx.pending = <<>> THEN db ELSE tx.pending[1]

\* Rows held uncommitted on the connection at most.
MaxPending == 1

\* A tool call on that connection.  conn.commit() at the end of a call
\* commits every row written since the last commit; a call that returns an
\* error returns without commit and without rollback, and the rows it had
\* inserted stay in the connection's open transaction.
ConnCall(r) ==
    /\ Len(db.events) < event_cap
    /\ IF r.error = "none"
       THEN /\ db' = r.conn
            /\ tx' = [tx EXCEPT !.pending = <<>>]
       ELSE /\ r.conn # ConnView
            /\ Len(r.conn.tasks) + Len(r.conn.workflow_steps)
                  <= Len(db.tasks) + Len(db.workflow_steps) + MaxPending
            /\ db' = db
            /\ tx' = [tx EXCEPT !.pending = <<r.conn>>]
    /\ UNCHANGED <<max_agents, tick_batch, scheduled, queued, worktrees, cleanups, event_cap, ws, captured_session_id, subprocesses>>

ConnCreateProject ==
    \E repo_path \in RepoPaths : ConnCall(create_project(ConnView, repo_path))

\* Positions count from 0 in every call and (project_id, position) is
\* unique in workflow_steps, so the call is taken for a project that has no
\* step yet on this connection.
ConnCreateWorkflowSteps ==
    \E project_id \in DOMAIN ConnView.projects, n \in 1..MaxNewSteps :
        \E steps \in [1..n -> StepDefs] :
            /\ Len(ConnView.workflow_steps) + n <= MaxSteps
            /\ \A step_id \in StepIds(ConnView) :
                  ConnView.workflow_steps[step_id].project_id # project_id
            /\ ConnCall(create_workflow_steps(ConnView, project_id, steps))

ConnCreateTask ==
    \E step_id \in StepIds(ConnView), task_type \in {"task", "milestone"} :
        ConnCall(create_task(ConnView, step_id, ConnView.workflow_steps[step_id].project_id,
                             NULL, task_type))

ConnCreateSubtasks ==
    \E parent_task_id \in TaskIds(ConnView), n \in 1..MaxSubtasks,
       default_step_id \in {NULL} \cup StepIds(ConnView) :
        \E tasks \in [1..n -> {NULL} \cup StepIds(ConnView)
                                  \cup {Len(ConnView.workflow_steps) + 1}] :
            ConnCall(create_subtasks(ConnView, parent_task_id, tasks, default_step_id, {}, NULL))

\* The Tool Surface behind the MCP server's connection, from a project
\* without steps and from the board with two projects.
InitConn ==
    /\ db \in {create_project(EmptyDb, "none").conn, ProjectsBoard}
    /\ max_agents = 1
    /\ event_cap = Len(db.events) + 1
    /\ Idle

NextConn ==
    \/ ConnCreateProject
    \/ ConnCreateWorkflowSteps
    \/ ConnCreateTask
    \/ ConnCreateSubtasks

SpecConn == InitConn /\ [][NextConn]_vars

\* A caller on a connection of its own (db/client.py, api/deps.py): every
\* MCP server process, every API request and the trigger loop open one.
\* The SELECTs of a call run in autocommit mode; sqlite3 begins the write
\* transaction at the first UPDATE or INSERT, so another connection can
\* commit between a call's reads and its writes.  tx.call holds the call
\* that has read and not yet written, with what it read.

\* move_task after validate_step_transition has returned.
move_task_write(conn, task_id, target_step_id) ==
    LET c1 == [conn EXCEPT !.tasks[task_id].step_id = target_step_id]
    IN emit_event(c1, "task_moved", Payload(task_id, target_step_id))

\* approve_plan after its checks, with the children its SELECT returned.
approve_plan_write(conn, task_id, children) ==
    LET c1 == [conn EXCEPT !.tasks[task_id].plan_approved = TRUE]
        c2 == emit_event(c1, "plan_approved", Payload(task_id, NULL))
    IN approve_plan_ready(c2, children)

OnlyTx == UNCHANGED <<max_agents, tick_batch, scheduled, queued, worktrees, cleanups, event_cap, ws, captured_session_id, subprocesses>>

MoveTaskRead ==
    \E task_id \in TaskIds(db), target_step_id \in StepIds(db) :
        /\ tx.call = <<>>
        /\ Len(db.events) < event_cap
        /\ validate_step_transition(db, task_id, target_step_id) = "none"
        /\ tx' = [tx EXCEPT !.call = <<[op |-> "move_task", task_id |-> task_id,
                                        target_step_id |-> target_step_id,
                                        children |-> <<>>]>>]
        /\ UNCHANGED db
        /\ OnlyTx

MoveTaskWrite ==
    /\ tx.call # <<>>
    /\ tx.call[1].op = "move_task"
    /\ db' = move_task_write(db, tx.call[1].task_id, tx.call[1].target_step_id)
    /\ tx' = [tx EXCEPT !.call = <<>>]
    /\ OnlyTx

ApprovePlanRead ==
    \E task_id \in TaskIds(db) :
        /\ tx.call = <<>>
        /\ Len(db.events) < event_cap
        /\ approve_plan(db, task_id).error = "none"
        /\ tx' = [tx EXCEPT !.call = <<[op |-> "approve_plan", task_id |-> task_id,
                                        target_step_id |-> NULL,
                                        children |-> SetToSeq(LiveChildren(db, task_id))]>>]
        /\ UNCHANGED db
        /\ OnlyTx

ApprovePlanWrite ==
    /\ tx.call # <<>>
    /\ tx.call[1].op = "approve_plan"
    /\ db' = approve_plan_write(db, tx.call[1].task_id, tx.call[1].children)
    /\ tx' = [tx EXCEPT !.call = <<>>]
    /\ OnlyTx

\* Two callers on the milestone board: one whose calls run without
\* another connection in between, one whose calls are interleaved.
InitRace ==
    /\ db = MilestoneBoard
    /\ max_agents = 1
    /\ event_cap = Len(db.events) + 2
    /\ Idle

NextRace ==
    \/ MoveTask
    \/ CancelTask
    \/ ApprovePlan
    \/ MoveTaskRead
    \/ MoveTaskWrite
    \/ ApprovePlanRead
    \/ ApprovePlanWrite

SpecRace == InitRace /\ [][NextRace]_vars

\* The trigger loop behind the Tool Surface on the board with the edge
\* 1 -> 2 and a third task: tasks are completed and moved and edges are added while
\* task_ready events wait for the next tick.
ReadyBoard == create_task(UnblockBoard, 1, 1, NULL, "task").conn

InitReady ==
    /\ db = ReadyBoard
    /\ max_agents = 1
    /\ event_cap = Len(db.events) + 3
    /\ Idle

NextReady ==
    \/ CompleteTask
    \/ MoveTask
    \/ AddDependency
    \/ TickStart
    \/ TickProcess

SpecReady == InitReady /\ [][NextReady]_vars

\* One event of the tick while the MCP server's connection holds rows it has
\* not committed, and with them the database's write lock.  A branch of the
\* loop body that writes raises sqlite3.OperationalError when the busy
\* timeout ends; "except Exception" logs it, the rest of the batch is
\* dropped and the loop sleeps.  The capacity branch writes nothing and
\* goes on to the next event.
TickProcessLocked ==
    /\ tick_batch # <<>>
    /\ tx.pending # <<>>
    /\ LET written == process_event(db, Head(tick_batch), max_agents).conn # db
           rest == IF written THEN <<>> ELSE Tail(tick_batch)
       IN /\ tick_batch' = rest
          /\ IF rest = <<>>
             THEN scheduled' = EmptyBag /\ queued' = queued (+) scheduled
             ELSE UNCHANGED <<scheduled, queued>>
    /\ UNCHANGED <<db, max_agents, worktrees, cleanups, event_cap, ws, captured_session_id, tx, subprocesses>>

\* One event of the tick while no connection holds the write lock.
TickProcessFree == tx.pending = <<>> /\ TickProcess

\* The trigger loop beside the MCP server's connection, on the board with
\* the edge 1 -> 2.  No Runner starts in this specification: the tasks the
\* loop launches stay queued and no AgentRun is opened.
InitLive ==
    /\ db = UnblockBoard
    /\ max_agents = 1
    /\ event_cap = Len(db.events) + 1
    /\ Idle

NextLive ==
    \/ ConnCreateTask
    \/ ConnCreateSubtasks
    \/ TickStart
    \/ TickProcessFree
    \/ TickProcessLocked

\* The loop keeps ticking; nothing obliges a client to call again.
LiveFairness ==
    /\ WF_vars(TickStart)
    /\ WF_vars(TickProcessFree)
    /\ WF_vars(TickProcessLocked)

SpecLive == InitLive /\ [][NextLive]_vars /\ LiveFairness

\* Shutdown: terminate_all runs once while the Runner threads start,
\* register and reap their agent subprocesses.
InitShutdown ==
    /\ db = SeedDb
    /\ max_agents = MaxAgents
    /\ event_cap = Len(db.events)
    /\ Idle

NextShutdown ==
    \/ Popen
    \/ RegisterProcess
    \/ ProcessExit
    \/ DiscardProcess
    \/ TerminateAllSnapshot
    \/ TerminateAllStop
    \/ TerminateAllClear

SpecShutdown == InitShutdown /\ [][NextShutdown]_vars

--------------------------------------------------------------------------
\* Properties of the dispatch path (runner/triggers.py, runner/launcher.py).

ActiveRunsOf(conn, task_id) ==
    {r \in ActiveRuns(conn) : conn.agent_runs[r].task_id = task_id}

\* C1: in every reachable state the number of agent_runs rows with
\* completed_at = NULL is at most max_parallel_agents.
C1_ActiveRunsWithinCap == count_active_runs(db) <= max_agents

\* C2: in every reachable state no task has more than one agent_runs row
\* with completed_at = NULL.
C2_OneActiveRunPerTask ==
    \A task_id \in TaskIds(db) : Cardinality(ActiveRunsOf(db, task_id)) <= 1

\* The Runners spawned for a task by asyncio.create_task and not yet at
\* start_run.
Pending(task_id) == CopiesIn(task_id, scheduled) + CopiesIn(task_id, queued)

PendingAfter(task_id) == CopiesIn(task_id, scheduled') + CopiesIn(task_id, queued')

\* The step is one pass of the trigger loop's body, over Head(tick_batch).
ProcessesEvent == tick_batch # <<>> /\ tick_batch' = Tail(tick_batch)

SpawnsRunner(task_id) == ProcessesEvent /\ PendingAfter(task_id) = Pending(task_id) + 1

SpawnsNothing == \A task_id \in TaskIds(db) : PendingAfter(task_id) = Pending(task_id)

ParentMilestoneApproved(conn, task_id) ==
    LET parent_id == conn.tasks[task_id].parent_task_id IN
    (parent_id \in TaskIds(conn) /\ conn.tasks[parent_id].type = "milestone")
        => conn.tasks[parent_id].plan_approved

\* C3: whenever the trigger processor spawns a Runner for a task, the event
\* it is processing is a task_moved or task_created event and, in the state
\* it processes the event in, the task has no active run, its parent
\* milestone (if any) is approved, is_blocked(task) is false and the number
\* of active runs is strictly below max_parallel_agents.
C3_SpawnOnlyWhenGatesPass ==
    [][\A task_id \in TaskIds(db) :
          SpawnsRunner(task_id) =>
              /\ db.events[Head(tick_batch)].type \in {"task_moved", "task_created"}
              /\ db.events[Head(tick_batch)].payload.task_id = task_id
              /\ ActiveRunsOf(db, task_id) = {}
              /\ ParentMilestoneApproved(db, task_id)
              /\ ~is_blocked(db, task_id)
              /\ count_active_runs(db) < max_agents]_vars

\* A Runner has been spawned for a task that has a predecessor.
C3_Witness ==
    \E task_id \in TaskIds(db) :
        Pending(task_id) > 0 /\ Predecessors(db, task_id) # {}

\* The event the trigger loop is about to process targets an agent step.
DispatchEvent ==
    /\ tick_batch # <<>>
    /\ db.events[Head(tick_batch)].type \in {"task_moved", "task_created"}
    /\ db.events[Head(tick_batch)].payload.task_id \in TaskIds(db)
    /\ should_dispatch(db.events[Head(tick_batch)], db)

FailsOtherGate(conn, task_id) ==
    \/ ActiveRunsOf(conn, task_id) # {}
    \/ ~ParentMilestoneApproved(conn, task_id)
    \/ is_blocked(conn, task_id)

AtCapacity(conn) == count_active_runs(conn) >= max_agents

TriggerConsumed(conn, event_id) == conn.events[event_id].trigger_consumed = 1

\* C4: when the trigger loop processes a task_moved/task_created event that
\* targets an agent step: if a gate other than capacity fails, the event is
\* marked trigger-consumed and no Runner is spawned; if only the capacity
\* gate fails, the event keeps trigger_consumed = 0, no Runner is spawned
\* and the event is among those the next tick reads; if every gate passes,
\* the event is consumed and exactly one Runner is spawned, for its task.
\* A consumed event is never unconsumed again, and a tick reads exactly the
\* unconsumed trigger events, so a consumed event is never retried.
C4_GateOutcomes ==
    [][/\ (ProcessesEvent /\ DispatchEvent) =>
            LET event_id == Head(tick_batch)
                task_id == db.events[event_id].payload.task_id
            IN IF FailsOtherGate(db, task_id)
               THEN TriggerConsumed(db', event_id) /\ SpawnsNothing
               ELSE IF AtCapacity(db)
               THEN /\ ~TriggerConsumed(db', event_id)
                    /\ SpawnsNothing
                    /\ \E i \in 1..Len(get_unconsumed_trigger_events(db')) :
                           get_unconsumed_trigger_events(db')[i] = event_id
               ELSE /\ TriggerConsumed(db', event_id)
                    /\ PendingAfter(task_id) = Pending(task_id) + 1
                    /\ \A other \in TaskIds(db) \ {task_id} :
                           PendingAfter(other) = Pending(other)
       /\ \A event_id \in DOMAIN db.events :
            TriggerConsumed(db, event_id) => TriggerConsumed(db', event_id)
       /\ (tick_batch = <<>> /\ tick_batch' # <<>>) =>
            \A i \in 1..Len(tick_batch') : ~TriggerConsumed(db, tick_batch'[i])]_vars

\* Mid-tick, an event of this tick's batch that was already passed over is
\* still unconsumed: it was left for the next tick by the capacity gate.
C4_Witness ==
    /\ tick_batch # <<>>
    /\ \E event_id \in DOMAIN db.events :
          /\ event_id < Head(tick_batch)
          /\ db.events[event_id].type \in {"task_moved", "task_created"}
          /\ ~TriggerConsumed(db, event_id)
          /\ AtCapacity(db)

--------------------------------------------------------------------------
\* Properties of the dependency graph (vibe_relay/mcp/tools.py).

RECURSIVE ReachWithin(_, _, _)
\* The tasks reached from the set S along at most k dependency edges.
ReachWithin(conn, S, k) ==
    IF k = 0 THEN S
    ELSE ReachWithin(conn, S \cup UNION {Successors(conn, x) : x \in S}, k - 1)

\* The tasks reached from a task by following edges forward (itself included).
Reach(conn, from) == ReachWithin(conn, {from}, Cardinality(conn.task_dependencies))

\* C6: in every reachable state the task_dependencies graph is acyclic and
\* has no self-loop: following edges forward from the successor of a stored
\* edge never reaches the edge's predecessor.
C6_DependencyGraphAcyclic ==
    \A d \in db.task_dependencies : d[1] \notin Reach(db, d[2])

DependencyCreated(before, after) ==
    /\ Len(after.events) = Len(before.events) + 1
    /\ SubSeq(after.events, 1, Len(before.events)) = before.events
    /\ after.events[Len(after.events)].type = "dependency_created"

\* C7: for existing tasks p and s, add_dependency(p, s) returns
\* invalid_input and leaves the dependency graph and the event log as they
\* were when p = s, when the edge p -> s is already stored, or when p is
\* reachable from s along stored edges; otherwise it succeeds, the graph
\* gains exactly the edge p -> s and the log gains one dependency_created
\* event.
C7_AddDependencyRejectsCycles ==
    \A p \in TaskIds(db), s \in TaskIds(db) :
        LET r == add_dependency(db, p, s) IN
        IF p = s \/ <<p, s>> \in db.task_dependencies \/ p \in Reach(db, s)
        THEN /\ r.error = "invalid_input"
             /\ r.conn.task_dependencies = db.task_dependencies
             /\ r.conn.events = db.events
        ELSE /\ r.error = "none"
             /\ r.conn.task_dependencies = db.task_dependencies \cup {<<p, s>>}
             /\ DependencyCreated(db, r.conn)
             /\ r.conn.tasks = db.tasks

\* A chain a -> b -> c is stored and the closing edge c -> a is refused.
C7_Witness ==
    \E a \in TaskIds(db), b \in TaskIds(db), c \in TaskIds(db) :
        /\ a # b /\ b # c /\ a # c
        /\ {<<a, b>>, <<b, c>>} \subseteq db.task_dependencies
        /\ <<c, a>> \notin db.task_dependencies
        /\ add_dependency(db, c, a).error = "invalid_input"

AtTerminalPosition(conn, task_id) ==
    \A step_id \in StepIds(conn) :
        conn.workflow_steps[step_id].project_id = conn.tasks[task_id].project_id
            => conn.workflow_steps[step_id].position
                 <= conn.workflow_steps[conn.tasks[task_id].step_id].position

\* C8: for every task t, is_blocked(t) is false exactly when every task p
\* with a stored edge p -> t, cancelled or not, sits at the step with the
\* highest position of the project's workflow.
C8_BlockedIffPredecessorNotTerminal ==
    \A t \in TaskIds(db) :
        ~is_blocked(db, t) <=>
            \A p \in TaskIds(db) :
                <<p, t>> \in db.task_dependencies => AtTerminalPosition(db, p)

\* A task is blocked by a cancelled predecessor that is its only predecessor
\* short of the terminal step.
C8_Witness ==
    \E t \in TaskIds(db), p \in TaskIds(db) :
        /\ <<p, t>> \in db.task_dependencies
        /\ db.tasks[p].cancelled /\ ~AtTerminalPosition(db, p)
        /\ \A q \in Predecessors(db, t) \ {p} : AtTerminalPosition(db, q)
        /\ is_blocked(db, t)

\* The events a call appended to the log.
NewEvents(before, after) == SubSeq(after.events, Len(before.events) + 1, Len(after.events))

EmitsTaskReady(before, after, task_id) ==
    \E i \in DOMAIN NewEvents(before, after) :
        /\ NewEvents(before, after)[i].type = "task_ready"
        /\ NewEvents(before, after)[i].payload.task_id = task_id

\* The board once complete_task has moved the task to the terminal step.
MovedToTerminal(conn, task_id) ==
    [conn EXCEPT !.tasks[task_id].step_id =
        CHOOSE step_id \in StepIds(conn) :
            /\ conn.workflow_steps[step_id].project_id = conn.tasks[task_id].project_id
            /\ \A other \in StepIds(conn) :
                  conn.workflow_steps[other].project_id = conn.tasks[task_id].project_id
                      => conn.workflow_steps[other].position
                           <= conn.workflow_steps[step_id].position]

\* C9: a successful complete_task(T) emits a task_ready event for a
\* successor S of T exactly when, with T moved to the terminal step, every
\* predecessor of S is at the terminal step, S is not cancelled and S's
\* parent is absent, not a milestone, or an approved milestone; it emits
\* task_ready for no other task.
C9_CascadeUnblock ==
    \A T \in TaskIds(db) :
        LET r == complete_task(db, T)
            moved == MovedToTerminal(db, T)
        IN r.error = "none" =>
            \A S \in TaskIds(db) :
                EmitsTaskReady(db, r.conn, S) <=>
                    /\ <<T, S>> \in db.task_dependencies
                    /\ \A p \in TaskIds(db) :
                          <<p, S>> \in db.task_dependencies => AtTerminalPosition(moved, p)
                    /\ ~db.tasks[S].cancelled
                    /\ ParentMilestoneApproved(db, S)

\* Completing a task would release one of its successors and hold back
\* another one, whose parent milestone is not approved.
C9_Witness ==
    \E T \in TaskIds(db), S \in TaskIds(db), U \in TaskIds(db) :
        /\ {<<T, S>>, <<T, U>>} \subseteq db.task_dependencies
        /\ complete_task(db, T).error = "none"
        /\ EmitsTaskReady(db, complete_task(db, T).conn, S)
        /\ ~EmitsTaskReady(db, complete_task(db, T).conn, U)
        /\ ~ParentMilestoneApproved(db, U)

--------------------------------------------------------------------------
\* Scenario properties.

HasRun(conn, task_id) == \E r \in DOMAIN conn.agent_runs : conn.agent_runs[r].task_id = task_id

CreatedEventOf(conn, task_id) ==
    CHOOSE event_id \in DOMAIN conn.events :
        /\ conn.events[event_id].type = "task_created"
        /\ conn.events[event_id].payload.task_id = task_id

\* C5: with max_parallel_agents = 1 and three tasks created at an agent
\* step together, at most one agent run is open at a time, and while a run
\* is open the task_created event of every task that has had no run yet is
\* still unconsumed by the trigger.
C5_OneRunAtATime ==
    /\ Cardinality(ActiveRuns(db)) <= 1
    /\ ActiveRuns(db) # {} =>
          \A task_id \in TaskIds(db) :
              (~HasRun(db, task_id) /\ Pending(task_id) = 0)
                  => ~TriggerConsumed(db, CreatedEventOf(db, task_id))

\* C5, its liveness part: each of the three tasks eventually has an agent run.
C5_AllEventuallyRun == <>(\A task_id \in TaskIds(db) : HasRun(db, task_id))

\* C10: in the dependency unblock scenario no agent run is opened for B
\* while A is short of the terminal step, and once complete_task(A) has
\* put A there, an agent run for B is eventually opened.
C10_UnblockDispatch ==
    /\ [](HasRun(db, 2) => AtTerminalPosition(db, 1))
    /\ (AtTerminalPosition(db, 1) ~> HasRun(db, 2))

\* B's task_created event was consumed while B was blocked, A was then
\* completed, and B, moved on by the task_ready handler, has a run.
C10_Witness ==
    /\ AtTerminalPosition(db, 1)
    /\ HasRun(db, 2)
    /\ \A r \in DOMAIN db.agent_runs :
          db.agent_runs[r].task_id = 2 => db.agent_runs[r].step_id = 2

HasEvent(conn, event_type, task_id) ==
    \E event_id \in DOMAIN conn.events :
        /\ conn.events[event_id].type = event_type
        /\ conn.events[event_id].payload.task_id = task_id

\* The step handles an event of the given type for the given task.
Processes(event_type, task_id) ==
    /\ ProcessesEvent
    /\ db.events[Head(tick_batch)].type = event_type
    /\ db.events[Head(tick_batch)].payload.task_id = task_id

\* The agent step with the lowest position above the task's (a set: empty
\* when there is none).
FirstAgentStepAfter(conn, task_id) ==
    {step_id \in StepIds(conn) :
        /\ conn.workflow_steps[step_id].system_prompt
        /\ conn.workflow_steps[step_id].position > TaskPosition(conn, task_id)
        /\ \A other \in StepIds(conn) :
              (/\ conn.workflow_steps[other].system_prompt
               /\ conn.workflow_steps[other].position > TaskPosition(conn, task_id))
                  => conn.workflow_steps[step_id].position
                       <= conn.workflow_steps[other].position}

\* C11: in the milestone gating scenario, while M is unapproved the trigger
\* consumes C's task_created event and spawns no Runner; once approve_plan(M)
\* has run, a task_ready event for C is in the log; handling that event
\* moves C to the first agent step after its position and emits task_moved;
\* and after the approval a Runner for C eventually opens an agent run.
C11_MilestoneGating ==
    /\ [][(Processes("task_created", 2) /\ ~db.tasks[1].plan_approved) =>
            TriggerConsumed(db', Head(tick_batch)) /\ SpawnsNothing]_vars
    /\ [](db.tasks[1].plan_approved => HasEvent(db, "task_ready", 2))
    /\ [][Processes("task_ready", 2) =>
            /\ db'.tasks[2].step_id \in FirstAgentStepAfter(db, 2)
            /\ db'.events[Len(db'.events)].type = "task_moved"
            /\ db'.events[Len(db'.events)].payload.task_id = 2]_vars
    /\ (db.tasks[1].plan_approved ~> HasRun(db, 2))

\* C's task_created event was consumed while M was unapproved, M was then
\* approved, and C has a run at Review, the step the task_ready handler
\* moved it to.
C11_Witness ==
    /\ db.tasks[1].plan_approved
    /\ \E r \in DOMAIN db.agent_runs :
          db.agent_runs[r].task_id = 2 /\ db.agent_runs[r].step_id = 3
    /\ \A r \in DOMAIN db.agent_runs :
          db.agent_runs[r].task_id = 2 => db.agent_runs[r].step_id = 3

--------------------------------------------------------------------------
\* Properties of the Tool Surface operations.

\* From one board to the next, no approval is withdrawn and none appears;
\* tasks that are new start unapproved.
ApprovalsKept(before, after) ==
    /\ \A task_id \in TaskIds(before) :
          /\ task_id \in TaskIds(after)
          /\ after.tasks[task_id].plan_approved = before.tasks[task_id].plan_approved
    /\ \A task_id \in TaskIds(after) \ TaskIds(before) :
          ~after.tasks[task_id].plan_approved

\* C12: plan_approved starts false on every task and is never set back to
\* false: every step of the Tool Surface, the trigger and the Runners
\* leaves it as it was on every task and false on every new task, except a
\* successful approve_plan(t), which sets it from false to true on t alone.
C12_PlanApprovedMonotone ==
    [][\/ ApprovalsKept(db, db')
       \/ \E t \in TaskIds(db) :
            /\ ~db.tasks[t].plan_approved
            /\ approve_plan(db, t).error = "none"
            /\ db' = approve_plan(db, t).conn
            /\ db'.tasks[t].plan_approved
            /\ ApprovalsKept([db EXCEPT !.tasks[t].plan_approved = TRUE], db')]_vars

\* An approved milestone was cancelled afterwards, and the trigger has
\* dispatched on the approval and a Runner has finished since.
C12_Witness ==
    \E event_id \in DOMAIN db.events :
        /\ db.events[event_id].type = "plan_approved"
        /\ TriggerConsumed(db, event_id)
        /\ db.tasks[db.events[event_id].payload.task_id].plan_approved
        /\ db.tasks[db.events[event_id].payload.task_id].cancelled
        /\ \E r \in DOMAIN db.agent_runs : db.agent_runs[r].completed

\* Task ids a caller may pass: those of the board and two that name no task.
AnyTaskIds(conn) == {NULL} \cup TaskIds(conn) \cup {Len(conn.tasks) + 1}

\* The tasks whose parent_task_id is the given task, cancelled or not.
Children(conn, parent_task_id) ==
    {task_id \in TaskIds(conn) : conn.tasks[task_id].parent_task_id = parent_task_id}

\* C13: approve_plan answers not_found for an id that names no task, and
\* invalid_input for a task that is not a milestone, for a milestone that is
\* already approved and for a milestone without a child; in each of these
\* cases the board (flags and event log) is left as it was.
C13_ApprovePlanRejections ==
    \A task_id \in AnyTaskIds(db) :
        LET r == approve_plan(db, task_id) IN
        /\ task_id \notin TaskIds(db) => (r.error = "not_found" /\ r.conn = db)
        /\ (/\ task_id \in TaskIds(db)
            /\ \/ db.tasks[task_id].type # "milestone"
               \/ db.tasks[task_id].plan_approved
               \/ Children(db, task_id) = {})
              => (r.error = "invalid_input" /\ r.conn = db)

\* approve_plan has approved a milestone, which is now rejected as already
\* approved, beside a child that is rejected as not a milestone.
C13_Witness ==
    \E m \in TaskIds(db), child \in TaskIds(db) :
        /\ db.tasks[m].type = "milestone" /\ db.tasks[m].plan_approved
        /\ db.tasks[child].parent_task_id = m /\ db.tasks[child].type # "milestone"
        /\ approve_plan(db, m).error = "invalid_input"
        /\ approve_plan(db, child).error = "invalid_input"

\* How many of the events appended between two boards have the given type
\* and name the given task.
EventCount(before, after, event_type, task_id) ==
    Cardinality({i \in DOMAIN NewEvents(before, after) :
                    /\ NewEvents(before, after)[i].type = event_type
                    /\ NewEvents(before, after)[i].payload.task_id = task_id})

\* Some predecessor of the task is not at the terminal step.
HasOpenPredecessor(conn, task_id) ==
    \E p \in TaskIds(conn) :
        <<p, task_id>> \in conn.task_dependencies /\ ~AtTerminalPosition(conn, p)

\* The children of the milestone that are neither cancelled nor blocked.
ReadyChildren(conn, m) ==
    {c \in Children(conn, m) : ~conn.tasks[c].cancelled /\ ~HasOpenPredecessor(conn, c)}

\* C14: a successful approve_plan(m) sets m.plan_approved and appends, in
\* the one result, exactly one plan_approved event for m and exactly one
\* task_ready event for each child of m that is neither cancelled nor
\* blocked, no task_ready for any other task, and no other event; nothing
\* else on the board changes.
C14_ApprovePlanEffect ==
    \A m \in TaskIds(db) :
        LET r == approve_plan(db, m) IN
        r.error = "none" =>
            /\ r.conn.tasks[m].plan_approved
            /\ r.conn = [db EXCEPT !.tasks[m].plan_approved = TRUE,
                                   !.events = r.conn.events]
            /\ SubSeq(r.conn.events, 1, Len(db.events)) = db.events
            /\ EventCount(db, r.conn, "plan_approved", m) = 1
            /\ \A t \in TaskIds(db) :
                  EventCount(db, r.conn, "task_ready", t) =
                      IF t \in ReadyChildren(db, m) THEN 1 ELSE 0
            /\ Len(NewEvents(db, r.conn)) = 1 + Cardinality(ReadyChildren(db, m))

\* approve_plan has approved a milestone with a ready child, a blocked
\* child: the log ends with plan_approved and one task_ready for the ready
\* child alone.
C14_Witness ==
    \E m \in TaskIds(db), ready \in TaskIds(db), blocked \in TaskIds(db) :
        /\ db.tasks[m].plan_approved
        /\ ready \in ReadyChildren(db, m)
        /\ blocked \in Children(db, m) /\ HasOpenPredecessor(db, blocked)
        /\ Len(db.events) >= 2
        /\ db.events[Len(db.events) - 1].type = "plan_approved"
        /\ db.events[Len(db.events) - 1].payload.task_id = m
        /\ db.events[Len(db.events)].type = "task_ready"
        /\ db.events[Len(db.events)].payload.task_id = ready

\* Step ids a caller may pass: those of the board and two that name no step.
AnyStepIds(conn) == {NULL} \cup StepIds(conn) \cup {Len(conn.workflow_steps) + 1}

\* The move the state machine allows: the task exists and is not cancelled,
\* the target is a step of the task's project, one position forward or any
\* number of positions back.
MoveAllowed(conn, task_id, target_step_id) ==
    /\ task_id \in TaskIds(conn)
    /\ ~conn.tasks[task_id].cancelled
    /\ target_step_id \in StepIds(conn)
    /\ conn.workflow_steps[target_step_id].project_id = conn.tasks[task_id].project_id
    /\ \/ StepPosition(conn, target_step_id) = TaskPosition(conn, task_id) + 1
       \/ StepPosition(conn, target_step_id) < TaskPosition(conn, task_id)

\* C15: move_task(T, target) succeeds exactly when the move is allowed; a
\* move that is not allowed answers invalid_transition and leaves the board
\* (the task's step and the event log) as it was; a successful move changes
\* only T's step, to the target, and appends exactly one task_moved event.
C15_MoveTask ==
    \A task_id \in AnyTaskIds(db), target_step_id \in AnyStepIds(db) :
        LET r == move_task(db, task_id, target_step_id) IN
        IF MoveAllowed(db, task_id, target_step_id)
        THEN /\ r.error = "none"
             /\ r.conn.tasks[task_id].step_id = target_step_id
             /\ r.conn = [db EXCEPT !.tasks[task_id].step_id = target_step_id,
                                    !.events = r.conn.events]
             /\ Len(r.conn.events) = Len(db.events) + 1
             /\ SubSeq(r.conn.events, 1, Len(db.events)) = db.events
             /\ EventCount(db, r.conn, "task_moved", task_id) = 1
        ELSE r.error = "invalid_transition" /\ r.conn = db

\* move_task has just moved a task onto the terminal step of its project,
\* beside a cancelled task; from here a forward move, a move to the other
\* project's steps and a move of the cancelled task are all rejected.
C15_Witness ==
    \E t \in TaskIds(db), c \in TaskIds(db) :
        /\ db.events[Len(db.events)].type = "task_moved"
        /\ db.events[Len(db.events)].payload.task_id = t
        /\ db.events[Len(db.events)].payload.new_step_id = db.tasks[t].step_id
        /\ AtTerminalPosition(db, t)
        /\ db.tasks[c].cancelled
        /\ \E step_id \in StepIds(db) :
              db.workflow_steps[step_id].project_id # db.tasks[t].project_id
        /\ \A step_id \in StepIds(db) : move_task(db, c, step_id).error = "invalid_transition"

\* The result changes only the task's cancelled flag, to the given value,
\* and appends exactly one event, of the given type, naming the task.
FlagSetWithOneEvent(before, r, task_id, flag, event_type) ==
    /\ r.error = "none"
    /\ r.conn.tasks[task_id].cancelled = flag
    /\ r.conn = [before EXCEPT !.tasks[task_id].cancelled = flag,
                               !.events = r.conn.events]
    /\ Len(r.conn.events) = Len(before.events) + 1
    /\ SubSeq(r.conn.events, 1, Len(before.events)) = before.events
    /\ EventCount(before, r.conn, event_type, task_id) = 1

\* C16: cancel_task on a cancelled task and uncancel_task on a task that is
\* not cancelled answer invalid_transition and leave the board as it was;
\* cancel_task on a task that is not cancelled sets cancelled and appends
\* one task_cancelled event; uncancel_task on a cancelled task clears
\* cancelled and appends one task_uncancelled event.
C16_CancelUncancel ==
    \A task_id \in TaskIds(db) :
        LET c == cancel_task(db, task_id)
            u == uncancel_task(db, task_id)
        IN IF db.tasks[task_id].cancelled
           THEN /\ c.error = "invalid_transition" /\ c.conn = db
                /\ FlagSetWithOneEvent(db, u, task_id, FALSE, "task_uncancelled")
           ELSE /\ u.error = "invalid_transition" /\ u.conn = db
                /\ FlagSetWithOneEvent(db, c, task_id, TRUE, "task_cancelled")

\* A task was cancelled and has just been uncancelled, beside a task that
\* is still cancelled: both rejections and both successes are at hand.
C16_Witness ==
    \E t \in TaskIds(db), c \in TaskIds(db) :
        /\ db.events[Len(db.events)].type = "task_uncancelled"
        /\ db.events[Len(db.events)].payload.task_id = t
        /\ ~db.tasks[t].cancelled
        /\ HasEvent(db, "task_cancelled", t)
        /\ db.tasks[c].cancelled
        /\ HasEvent(db, "task_cancelled", c)

\* C17: for every task that is not cancelled, cancel_task followed by
\* uncancel_task both succeed and leave every column of the task's row as
\* it was before the pair (step, parent, type, plan_approved, worktree_path,
\* session_id, and cancelled = false); the other rows are untouched too.
C17_CancelUncancelRoundTrip ==
    \A task_id \in TaskIds(db) :
        ~db.tasks[task_id].cancelled =>
            LET c == cancel_task(db, task_id)
                u == uncancel_task(c.conn, task_id)
            IN /\ c.error = "none" /\ u.error = "none"
               /\ c.conn.tasks[task_id].cancelled
               /\ u.conn.tasks[task_id] = db.tasks[task_id]
               /\ ~u.conn.tasks[task_id].cancelled
               /\ u.conn.tasks = db.tasks

\* The approved milestone was cancelled and has just been uncancelled: it
\* is approved still, and the pair can be applied to it again.
C17_Witness ==
    \E t \in TaskIds(db) :
        /\ HasEvent(db, "task_cancelled", t)
        /\ db.events[Len(db.events)].type = "task_uncancelled"
        /\ db.events[Len(db.events)].payload.task_id = t
        /\ db.tasks[t].plan_approved /\ ~db.tasks[t].cancelled
        /\ uncancel_task(cancel_task(db, t).conn, t).error = "none"

--------------------------------------------------------------------------
\* Sibling-completion auto-advance.

\* Every child of the milestone that is not cancelled sits at the terminal
\* step.
AllLiveChildrenDone(conn, m) ==
    \A c \in Children(conn, m) : conn.tasks[c].cancelled \/ AtTerminalPosition(conn, c)

C19_MilestoneJumpsToDone ==
    \A child \in TaskIds(db) :
        LET m == db.tasks[child].parent_task_id
            r == complete_task(db, child)
        IN (/\ m \in TaskIds(db)
            /\ db.tasks[m].type = "milestone" /\ ~db.tasks[m].cancelled
            /\ TaskPosition(db, m) = 0
            /\ r.error = "none"
            /\ AllLiveChildrenDone(r.conn, m))
              => AtTerminalPosition(r.conn, m)

\* The events appended between two boards hold no milestone_completed.
NoMilestoneCompleted(before, after) ==
    \A i \in DOMAIN NewEvents(before, after) :
        NewEvents(before, after)[i].type # "milestone_completed"

\* Between the two boards the task, which is not the completed one, was
\* moved onto the terminal step: the auto-advance landed it there.
LandedOnTerminal(before, after, completed, task_id) ==
    /\ task_id # completed
    /\ after.tasks[task_id].step_id # before.tasks[task_id].step_id
    /\ AtTerminalPosition(after, task_id)

\* C20: within one complete_task call, exactly one milestone_completed
\* event is emitted for each task P that the sibling-completion auto-advance
\* moves onto the terminal step, and none for any other task (a task that
\* is advanced to a non-terminal step, is not advanced, or is the completed
\* task itself); when P lands on the terminal step the check is applied to
\* P's parent too, which advances by one step if it is a milestone, not
\* cancelled, below the last step, with every non-cancelled child done.
\* No other operation emits milestone_completed.
C20_MilestoneCompleted ==
    /\ \A child \in TaskIds(db) :
          LET r == complete_task(db, child) IN
          r.error = "none" =>
              \A p \in TaskIds(db) :
                  /\ EventCount(db, r.conn, "milestone_completed", p) =
                        IF LandedOnTerminal(db, r.conn, child, p) THEN 1 ELSE 0
                  /\ LandedOnTerminal(db, r.conn, child, p) =>
                        LET g == db.tasks[p].parent_task_id IN
                        (/\ g \in TaskIds(db)
                         /\ db.tasks[g].type = "milestone" /\ ~db.tasks[g].cancelled
                         /\ AllLiveChildrenDone(r.conn, g)
                         /\ ~AtTerminalPosition(db, g))
                           => TaskPosition(r.conn, g) = TaskPosition(db, g) + 1
    /\ \A task_id \in TaskIds(db) :
          /\ \A step_id \in StepIds(db) :
                NoMilestoneCompleted(db, move_task(db, task_id, step_id).conn)
          /\ NoMilestoneCompleted(db, cancel_task(db, task_id).conn)
          /\ NoMilestoneCompleted(db, uncancel_task(db, task_id).conn)
          /\ NoMilestoneCompleted(db, approve_plan(db, task_id).conn)

\* One complete_task call has advanced the whole chain: the log ends with
\* the task's task_moved, then task_moved and milestone_completed of its
\* parent milestone, then task_moved and milestone_completed of that
\* milestone's parent, and all three sit at the terminal step.
C20_Witness ==
    \E c \in TaskIds(db) :
        LET p == db.tasks[c].parent_task_id
            n == Len(db.events)
        IN /\ p \in TaskIds(db)
           /\ db.tasks[p].parent_task_id \in TaskIds(db)
           /\ n >= 5
           /\ db.events[n - 4].type = "task_moved"
           /\ db.events[n - 4].payload.task_id = c
           /\ db.events[n - 3].type = "task_moved"
           /\ db.events[n - 3].payload.task_id = p
           /\ db.events[n - 2].type = "milestone_completed"
           /\ db.events[n - 2].payload.task_id = p
           /\ db.events[n - 1].type = "task_moved"
           /\ db.events[n - 1].payload.task_id = db.tasks[p].parent_task_id
           /\ db.events[n].type = "milestone_completed"
           /\ db.events[n].payload.task_id = db.tasks[p].parent_task_id
           /\ AtTerminalPosition(db, c) /\ AtTerminalPosition(db, p)
           /\ AtTerminalPosition(db, db.tasks[p].parent_task_id)

--------------------------------------------------------------------------
\* Events written with the data.

\* The tables other than the event log.
DataOf(conn) == [conn EXCEPT !.events = <<>>]

\* C21: every successful state-mutating Tool Surface operation commits its
\* data change together with at least one new event row: no step of the
\* Tool Surface changes the data tables without appending an event, and
\* none appends an event without changing the data tables.
C21_MutationsEmitEvents ==
    [][/\ DataOf(db') # DataOf(db) => Len(db'.events) > Len(db.events)
       /\ Len(db'.events) > Len(db.events) => DataOf(db') # DataOf(db)]_vars

--------------------------------------------------------------------------
\* The event log and its consumers.

\* The ids in a sequence of ids.
Range(seq) == {seq[i] : i \in DOMAIN seq}

\* C22: the two consumption flags are independent.  A step that changes a
\* consumed flag changes no trigger_consumed flag, and the other way round;
\* marking either flag of an event leaves its other flag as it was; and an
\* event is returned to the broadcaster exactly while its consumed flag is
\* 0, and to the trigger processor exactly while its trigger_consumed flag
\* is 0 (for the event types the trigger processor reads), whatever the
\* other flag says.
C22_FlagsIndependent ==
    /\ [][\A e \in DOMAIN db.events, f \in DOMAIN db.events :
            db'.events[e].consumed # db.events[e].consumed
                => db'.events[f].trigger_consumed = db.events[f].trigger_consumed]_vars
    /\ [](\A e \in DOMAIN db.events :
            /\ mark_trigger_consumed(db, e).events[e].consumed = db.events[e].consumed
            /\ mark_event_consumed(db, e).events[e].trigger_consumed
                  = db.events[e].trigger_consumed
            /\ e \in Range(get_unconsumed_events(db)) <=> db.events[e].consumed = 0
            /\ e \in Range(get_unconsumed_trigger_events(db))
                  <=> (db.events[e].trigger_consumed = 0 /\ db.events[e].type \in TriggerTypes))

\* Both consumers have marked events: one event has been consumed by the
\* broadcaster only and is still handed to the trigger processor, which has
\* consumed an earlier one.
C22_Witness ==
    \E e \in DOMAIN db.events, f \in DOMAIN db.events :
        /\ db.events[e].consumed = 1 /\ db.events[e].trigger_consumed = 0
        /\ e \in Range(get_unconsumed_trigger_events(db))
        /\ db.events[f].trigger_consumed = 1 /\ db.events[f].consumed = 1

\* C23: no step deletes or rewrites an event row (the log only grows, and
\* type and payload of a row stay), and each consumption flag only goes
\* from 0 to 1; the events a consumer holds to act on are all still
\* unmarked for it, so an event it has marked is not handed to it again.
C23_EventsKeptFlagsMonotone ==
    /\ [][/\ Len(db'.events) >= Len(db.events)
           /\ \A e \in DOMAIN db.events :
                 /\ db'.events[e].type = db.events[e].type
                 /\ db'.events[e].payload = db.events[e].payload
                 /\ db'.events[e].consumed >= db.events[e].consumed
                 /\ db'.events[e].trigger_consumed >= db.events[e].trigger_consumed]_vars
    /\ [](/\ \A i \in DOMAIN tick_batch : db.events[tick_batch[i]].trigger_consumed = 0
          /\ \A i \in DOMAIN ws.events : db.events[ws.events[i]].consumed = 0)

\* An event has been marked by both consumers and received by a client,
\* and the last event the Tool Surface wrote is still unmarked by both.
C23_Witness ==
    /\ \E e \in DOMAIN db.events :
          /\ db.events[e].consumed = 1 /\ db.events[e].trigger_consumed = 1
          /\ \E l \in Listeners : e \in Range(ws.received[l])
    /\ \E e \in DOMAIN db.events :
          db.events[e].consumed = 0 /\ db.events[e].trigger_consumed = 0
    /\ Len(db.events) = event_cap

\* C24: each consumer acts on the events in the order they were written:
\* the trigger processor has marked no event while an earlier event of the
\* types it reads is still unmarked by it, and likewise the broadcaster.
C24_ConsumedInOrder ==
    \A e1 \in DOMAIN db.events, e2 \in DOMAIN db.events :
        e1 < e2 =>
            /\ (/\ db.events[e1].type \in TriggerTypes
                /\ db.events[e2].trigger_consumed = 1) => db.events[e1].trigger_consumed = 1
            /\ db.events[e2].consumed = 1 => db.events[e1].consumed = 1

\* C25: in every reachable state a task's worktree_path is set if and only
\* if a worktree of that task exists on disk, also after the trigger
\* processor's cleanup has removed the worktree.
C25_WorktreePathIffOnDisk ==
    \A task_id \in TaskIds(db) : db.tasks[task_id].worktree_path <=> task_id \in worktrees


\* The agent_runs rows there can be in SpecRun: one per dispatching event.
RunIds == 1..(Len(RunBoard.events) + 1)

RunOpen(conn, run_id) == run_id \in DOMAIN conn.agent_runs /\ ~conn.agent_runs[run_id].completed

RunClosed(conn, run_id) == run_id \in DOMAIN conn.agent_runs /\ conn.agent_runs[run_id].completed

\* C26: every agent_runs row that launch_agent opens is closed by the end of
\* launch_agent: when the subprocess ends normally, with its exit code and
\* no error; when run_agent raises, with exit_code = -1 and the error; and
\* a closed row is never reopened nor rewritten.
C26_RunsClosed ==
    /\ \A run_id \in RunIds : RunOpen(db, run_id) ~> RunClosed(db, run_id)
    /\ [][\A run_id \in DOMAIN db.agent_runs :
            /\ RunClosed(db, run_id) => db'.agent_runs[run_id] = db.agent_runs[run_id]
            /\ (RunOpen(db, run_id) /\ RunClosed(db', run_id)) =>
                   LET run == db'.agent_runs[run_id] IN
                   /\ \/ run.exit_code \in ExitCodes /\ ~run.error
                      \/ run.exit_code = -1 /\ run.error
                   /\ run.task_id = db.agent_runs[run_id].task_id
                   /\ run.step_id = db.agent_runs[run_id].step_id]_vars

\* One run of the task has ended with a non-zero exit code, a later one was
\* closed after run_agent raised, and no run is open.
C26_Witness ==
    /\ ActiveRuns(db) = {}
    /\ \E r1 \in DOMAIN db.agent_runs, r2 \in DOMAIN db.agent_runs :
          /\ r1 < r2
          /\ db.agent_runs[r1].exit_code = 1 /\ ~db.agent_runs[r1].error
          /\ db.agent_runs[r2].exit_code = -1 /\ db.agent_runs[r2].error


\* The launch_agent thread of a task starts: one Runner leaves the queue.
LaunchStep(task_id) ==
    /\ tick_batch' = tick_batch
    /\ CopiesIn(task_id, queued) > 0
    /\ queued' = queued (-) SetToBag({task_id})

LaunchRejected(conn, task_id) ==
    \/ task_id \notin TaskIds(conn)
    \/ conn.tasks[task_id].cancelled
    \/ ~conn.workflow_steps[conn.tasks[task_id].step_id].system_prompt

\* C27: launch_agent for a task that does not exist, is cancelled or is at
\* a step without system_prompt raises LaunchError before doing anything:
\* no agent_runs row is opened, no worktree is created and the task row is
\* unchanged.
C27_LaunchRejectedFirst ==
    [][\A task_id \in BagToSet(queued) :
          (LaunchStep(task_id) /\ LaunchRejected(db, task_id)) =>
              /\ db' = db
              /\ worktrees' = worktrees]_vars


\* A step that changes a task's session_id is the capture of a run of that
\* task that is open before and after it.
SessionWrittenByOpenRun ==
    \A task_id \in TaskIds(db) :
        db'.tasks[task_id].session_id # db.tasks[task_id].session_id =>
            \E run_id \in ActiveRunsOf(db, task_id) :
                /\ RunOpen(db', run_id)
                /\ captured_session_id[run_id] = NULL
                /\ captured_session_id'[run_id] # NULL
                /\ db'.tasks[task_id].session_id = captured_session_id'[run_id]

\* A run opened in this step starts from the task's stored session_id.
ResumeDirective ==
    \A run_id \in DOMAIN db'.agent_runs \ DOMAIN db.agent_runs :
        captured_session_id'[run_id] = db.tasks[db'.agent_runs[run_id].task_id].session_id

CapturedKept ==
    \A run_id \in ActiveRuns(db) \cap ActiveRuns(db') :
        captured_session_id[run_id] # NULL =>
            captured_session_id'[run_id] = captured_session_id[run_id]

C29_NoDuplicateDelivery ==
    \A l \in Listeners :
        \A i \in DOMAIN ws.received[l], j \in DOMAIN ws.received[l] :
            ws.received[l][i] = ws.received[l][j] => i = j


\* The step is the last one of its project: no step of the project has a
\* higher position.
IsLastStep(conn, step_id) ==
    \A other \in StepIds(conn) :
        conn.workflow_steps[other].project_id = conn.workflow_steps[step_id].project_id =>
            conn.workflow_steps[other].position <= conn.workflow_steps[step_id].position

\* C30: complete_task answers not_found for an id that names no task and
\* invalid_transition for a cancelled task or one already at the terminal
\* step, changing nothing; for any other task, wherever it is, it puts the
\* task at the terminal step of its project, changes no other column of it
\* and appends exactly one task_moved event for it, to that step.
C30_CompleteTask ==
    \A task_id \in AnyTaskIds(db) :
        LET r == complete_task(db, task_id) IN
        IF task_id \notin TaskIds(db)
        THEN r.error = "not_found" /\ r.conn = db
        ELSE IF db.tasks[task_id].cancelled \/ IsLastStep(db, db.tasks[task_id].step_id)
             THEN r.error = "invalid_transition" /\ r.conn = db
        ELSE LET new_step_id == r.conn.tasks[task_id].step_id IN
             /\ r.error = "none"
             /\ IsLastStep(db, new_step_id)
             /\ db.workflow_steps[new_step_id].project_id = db.tasks[task_id].project_id
             /\ r.conn.tasks[task_id] = [db.tasks[task_id] EXCEPT !.step_id = new_step_id]
             /\ SubSeq(r.conn.events, 1, Len(db.events)) = db.events
             /\ EventCount(db, r.conn, "task_moved", task_id) = 1
             /\ \A i \in DOMAIN NewEvents(db, r.conn) :
                    LET event == NewEvents(db, r.conn)[i] IN
                    (event.type = "task_moved" /\ event.payload.task_id = task_id) =>
                        event.payload.new_step_id = new_step_id

\* A task of the four-step project was moved one step on and has just been
\* completed from there, beside a cancelled task: the success from a middle
\* position and each rejection are at hand.
C30_Witness ==
    \E t \in TaskIds(db), c \in TaskIds(db) :
        /\ db.tasks[c].cancelled
        /\ db.tasks[t].project_id = 1 /\ ~db.tasks[t].cancelled
        /\ IsLastStep(db, db.tasks[t].step_id)
        /\ db.events[Len(db.events)].type = "task_moved"
        /\ db.events[Len(db.events)].payload.task_id = t
        /\ \E e \in DOMAIN db.events :
              /\ db.events[e].type = "task_moved"
              /\ db.events[e].payload.task_id = t
              /\ db.events[e].payload.new_step_id = 2
        /\ Cardinality({e \in DOMAIN db.events :
                           db.events[e].type = "task_moved" /\ db.events[e].payload.task_id = t}) = 2
        /\ complete_task(db, t).error = "invalid_transition"
        /\ complete_task(db, c).error = "invalid_transition"


\* C31: in every reachable state every task's step_id names a workflow
\* step of the task's own project, whichever operation set it.
C31_StepInProject ==
    \A task_id \in TaskIds(db) :
        /\ db.tasks[task_id].step_id \in StepIds(db)
        /\ db.workflow_steps[db.tasks[task_id].step_id].project_id = db.tasks[task_id].project_id

\* The child was completed, its milestone auto-advanced, the dependent
\* task was moved on by the task_ready handling, and children were created
\* under the task of project 2 with step_id keys.
C31_Witness ==
    /\ \E e \in DOMAIN db.events :
          /\ db.events[e].type = "task_ready" /\ db.events[e].trigger_consumed = 1
          /\ db.tasks[db.events[e].payload.task_id].step_id # 1
    /\ HasEvent(db, "task_moved", 1)
    /\ HasEvent(db, "task_moved", 2)
    /\ \E task_id \in TaskIds(db) :
          /\ db.tasks[task_id].parent_task_id = 4
          /\ db.tasks[task_id].step_id = 6


\* The pairs create_subtasks accepts as dependencies for n children.
IndexPairs(n) == {d \in (0..(n - 1)) \X (0..(n - 1)) : d[1] # d[2]}

\* The call's result holds the edge of every declared pair, and handling
\* the task_created event of a child whose declared predecessor is not at
\* the terminal step spawns no Runner, whatever the capacity.
BatchEdgesWithEvents(parent_task_id, n, dependencies) ==
    LET r == create_subtasks(db, parent_task_id, [i \in 1..n |-> NULL], NULL, dependencies, NULL)
        first == Len(db.tasks)
    IN r.error = "none" =>
          \A d \in dependencies :
              LET pred == first + d[1] + 1
                  succ == first + d[2] + 1
              IN /\ <<pred, succ>> \in r.conn.task_dependencies
                 /\ ~IsLastStep(r.conn, r.conn.tasks[pred].step_id) =>
                        \A e \in DOMAIN r.conn.events :
                            (/\ r.conn.events[e].type = "task_created"
                             /\ r.conn.events[e].payload.task_id = succ) =>
                                process_event(r.conn, e, Len(r.conn.tasks) + 1).launch = NULL

NoRunnerForBlockedTask ==
    \A task_id \in TaskIds(db) : SpawnsRunner(task_id) => ~is_blocked(db, task_id)

\* C32: create_subtasks commits its intra-batch dependency edges together
\* with its task_created events, so the trigger processor, which sees only
\* committed states, never handles a child's task_created event without
\* the child's declared edges: a child whose declared predecessor is not
\* at the terminal step is not dispatched on its task_created event.
C32_BatchEdgesBeforeEvents ==
    /\ [](\A parent_task_id \in TaskIds(db), n \in 1..MaxSubtasks :
              \A dependencies \in SUBSET IndexPairs(n) :
                  BatchEdgesWithEvents(parent_task_id, n, dependencies))
    /\ [][NoRunnerForBlockedTask]_vars

\* Two children were created with an edge between them; both task_created
\* events have been handled; the predecessor has an agent run and the
\* successor has neither a run nor a Runner on its way.
C32_Witness ==
    \E pred \in TaskIds(db), succ \in TaskIds(db) :
        /\ <<pred, succ>> \in db.task_dependencies
        /\ db.tasks[pred].parent_task_id = 1 /\ db.tasks[succ].parent_task_id = 1
        /\ \A e \in DOMAIN db.events :
              db.events[e].type = "task_created" => db.events[e].trigger_consumed = 1
        /\ \E r \in DOMAIN db.agent_runs : db.agent_runs[r].task_id = pred
        /\ \A r \in DOMAIN db.agent_runs : db.agent_runs[r].task_id # succ
        /\ Pending(succ) = 0
        /\ ~IsLastStep(db, db.tasks[pred].step_id)


\* C33: when terminate_all returns, every subprocess of its registry has
\* been stopped and no subprocess that a Runner has registered is running
\* while absent from the registry, also when the Runner registered it
\* between terminate_all's snapshot and its clear.
C33_ShutdownLeavesNoStray ==
    [][(subprocesses.pc = "clearing" /\ subprocesses'.pc = "returned") =>
          \A p \in Procs :
              (subprocesses'.position[p] = "registered" /\ subprocesses'.alive[p]) =>
                  p \in subprocesses'.active_processes]_vars


\* The agent steps of the task's project above the task's position.
LaterAgentSteps(conn, task_id) ==
    {step_id \in StepIds(conn) :
        /\ conn.workflow_steps[step_id].project_id = conn.tasks[task_id].project_id
        /\ conn.workflow_steps[step_id].system_prompt
        /\ conn.workflow_steps[step_id].position >
              conn.workflow_steps[conn.tasks[task_id].step_id].position}

\* The events of before are in after, unchanged but for the trigger flag
\* of event_id, which is set.
OnlyConsumed(before, event_id, after) ==
    /\ Len(after.events) >= Len(before.events)
    /\ \A e \in DOMAIN before.events :
          after.events[e] = IF e = event_id
                            THEN [before.events[e] EXCEPT !.trigger_consumed = 1]
                            ELSE before.events[e]

\* after is before with the task_ready event event_id for task_id handled.
TaskReadyHandled(before, event_id, task_id, after) ==
    /\ OnlyConsumed(before, event_id, after)
    /\ after.task_dependencies = before.task_dependencies
    /\ after.agent_runs = before.agent_runs
    /\ IF /\ task_id \in TaskIds(before)
          /\ ~before.tasks[task_id].cancelled
          /\ LaterAgentSteps(before, task_id) # {}
       THEN LET new_step_id == after.tasks[task_id].step_id IN
            /\ new_step_id \in LaterAgentSteps(before, task_id)
            /\ \A other \in LaterAgentSteps(before, task_id) :
                  before.workflow_steps[new_step_id].position
                      <= before.workflow_steps[other].position
            /\ after.tasks = [before.tasks EXCEPT ![task_id].step_id = new_step_id]
            /\ Len(after.events) = Len(before.events) + 1
            /\ after.events[Len(after.events)].type = "task_moved"
            /\ after.events[Len(after.events)].payload = Payload(task_id, new_step_id)
       ELSE /\ after.tasks = before.tasks
            /\ Len(after.events) = Len(before.events)

\* The trigger loop's body applied to a task_ready event for task_id that
\* has just been written.
TaskReadyCall(task_id) ==
    LET before == emit_event(db, "task_ready", Payload(task_id, NULL))
        handled == process_event(before, Len(before.events), max_agents)
    IN /\ TaskReadyHandled(before, Len(before.events), task_id, handled.conn)
       /\ handled.launch = NULL
       /\ handled.cleanup = NULL

\* C34: handling a task_ready event moves a task that exists and is not
\* cancelled to the agent step of its project with the lowest position
\* above its own and appends exactly one task_moved event for it; when
\* there is no such step, or the task is cancelled or missing, no task
\* changes and no event is appended; in every case the task_ready event
\* is marked trigger_consumed.
C34_TaskReadyHandling ==
    /\ [](\A task_id \in AnyTaskIds(db) : TaskReadyCall(task_id))
    /\ [][\A task_id \in TaskIds(db) :
            Processes("task_ready", task_id) =>
                TaskReadyHandled(db, Head(tick_batch), task_id, db')]_vars

\* The trigger loop has handled the task_ready event of the dependent
\* task and moved it; a cancelled task is on the board, and so is a task
\* with no agent step above it.
C34_Witness ==
    /\ \E e \in DOMAIN db.events :
          /\ db.events[e].type = "task_ready" /\ db.events[e].trigger_consumed = 1
          /\ HasEvent(db, "task_moved", db.events[e].payload.task_id)
          /\ db.tasks[db.events[e].payload.task_id].step_id = 2
    /\ \E c \in TaskIds(db) : db.tasks[c].cancelled
    /\ \E t \in TaskIds(db) : ~db.tasks[t].cancelled /\ LaterAgentSteps(db, t) = {}


\* The result of the call holds an edge from every new child to every task
\* that was a successor of cascade_deps_from, and such a task is blocked
\* while a new child is not at the terminal step.
CascadeCall(parent_task_id, n, cascade_deps_from) ==
    LET r == create_subtasks(db, parent_task_id, [i \in 1..n |-> NULL], NULL, {},
                             cascade_deps_from)
        created == (Len(db.tasks) + 1)..(Len(db.tasks) + n)
    IN r.error = "none" =>
          /\ TaskIds(r.conn) = TaskIds(db) \cup created
          /\ \A succ_id \in TaskIds(db) :
                <<cascade_deps_from, succ_id>> \in db.task_dependencies =>
                    /\ \A child \in created : <<child, succ_id>> \in r.conn.task_dependencies
                    /\ (\E child \in created : ~IsLastStep(r.conn, r.conn.tasks[child].step_id))
                           => is_blocked(r.conn, succ_id)

\* C35: after create_subtasks with cascade_deps_from = X has succeeded,
\* every task that was a successor of X has an edge from every new child,
\* and is blocked until every new child is at the terminal step.
C35_CascadeDeps ==
    /\ \A parent_task_id \in TaskIds(db), n \in 1..MaxSubtasks,
          cascade_deps_from \in AnyTaskIds(db) :
            CascadeCall(parent_task_id, n, cascade_deps_from)
    /\ \A edge \in db.task_dependencies :
          ~IsLastStep(db, db.tasks[edge[1]].step_id) => is_blocked(db, edge[2])

\* Two children were created under A with cascade_deps_from = A: B depends
\* on both; one child and A are at the terminal step, the other child is
\* not, and B is blocked.
C35_Witness ==
    \E c1 \in TaskIds(db), c2 \in TaskIds(db) :
        /\ c1 # c2
        /\ db.tasks[c1].parent_task_id = 1 /\ db.tasks[c2].parent_task_id = 1
        /\ <<c1, 2>> \in db.task_dependencies /\ <<c2, 2>> \in db.task_dependencies
        /\ IsLastStep(db, db.tasks[c1].step_id)
        /\ ~IsLastStep(db, db.tasks[c2].step_id)
        /\ IsLastStep(db, db.tasks[1].step_id)
        /\ is_blocked(db, 2)


\* The rows a call that returned an error left in the connection's open
\* transaction.
PendingSteps == StepIds(ConnView) \ StepIds(db)

PendingTasks == TaskIds(ConnView) \ TaskIds(db)

RejectedRowsStayOut ==
    /\ PendingSteps \cap StepIds(db') = {}
    /\ PendingTasks \cap TaskIds(db') = {}

\* C36: a Tool Surface operation that returns a tagged error leaves the
\* persistent state unchanged, also after later successful operations on
\* the same connection: no row inserted before the error was detected is
\* ever committed.
C36_ErrorCommitsNothing == [][RejectedRowsStayOut]_vars


CancelledStaysPut ==
    \A task_id \in TaskIds(db) :
        db.tasks[task_id].cancelled /\ db'.tasks[task_id].cancelled
            => db'.tasks[task_id].step_id = db.tasks[task_id].step_id

\* C37: while a task's cancelled flag is true its step_id never changes,
\* for every interleaving of a cancel_task call on one connection with a
\* step-changing call on another connection between its read of the task
\* and its write.
C37_CancelledNeverMoves == [][CancelledStaysPut]_vars

\* C40: of two concurrent approve_plan calls on the same unapproved
\* milestone at most one succeeds: the log holds at most one plan_approved
\* event per milestone and, from them, at most one task_ready event per
\* child.
C40_OneApprovalPerMilestone ==
    \A task_id \in TaskIds(db) :
        /\ EventCount(EmptyDb, db, "plan_approved", task_id) <= 1
        /\ EventCount(EmptyDb, db, "task_ready", task_id) <= 1


\* Ready: not cancelled, every predecessor at the terminal step, the parent
\* milestone, if any, approved.
IsReady(conn, task_id) ==
    /\ ~conn.tasks[task_id].cancelled
    /\ ~is_blocked(conn, task_id)
    /\ ParentMilestoneApproved(conn, task_id)

MovedByTaskReady(task_id) ==
    /\ Processes("task_ready", task_id)
    /\ db'.tasks[task_id].step_id # db.tasks[task_id].step_id

MovesOnlyReady == \A task_id \in TaskIds(db) : MovedByTaskReady(task_id) => IsReady(db, task_id)

\* C38: the trigger processor moves a task forward in response to a
\* task_ready event only if the task is Ready when the event is handled,
\* also when edges were added or a predecessor was moved back from the
\* terminal step after the event was emitted.
C38_TaskReadyMovesOnlyReady == [][MovesOnlyReady]_vars


TriggerRelevant(event_id) ==
    event_id \in DOMAIN db.events /\ db.events[event_id].type \in TriggerTypes

TriggerMarked(event_id) ==
    event_id \in DOMAIN db.events /\ db.events[event_id].trigger_consumed = 1

EventuallyConsumed(event_id) == TriggerRelevant(event_id) ~> TriggerMarked(event_id)

\* C39: every event of a trigger-relevant type is eventually marked
\* trigger_consumed while the trigger loop keeps ticking and every opened
\* AgentRun is closed, also after an exception while an event is
\* processed.
C39_TriggerLiveness ==
    \A event_id \in 1..(Len(UnblockBoard.events) + MaxSubtasks + 1) : EventuallyConsumed(event_id)

====
